---- MODULE Spec2Model ----
(***************************************************************************)
(* ChessXChess: the turn-queue engine (src/lib/gameStore.ts), its          *)
(* read-modify-write coordinator over the shared Redis record              *)
(* (RedisStore.updateState) and the read path with lazy expiry             *)
(* (RedisStore.getStateWithExpiration), run by several server processes.   *)
(***************************************************************************)
EXTENDS Integers, Sequences, FiniteSets, TLC

\* ------------------------------------------------------------------ bounds
MaxCalls == 4
MaxTicks == 1
SerialMaxCalls == 6
SerialMaxTicks == 3
FanMaxCalls == 2
MaxReadsInFlight == 1
ProbeMaxCalls == 3
EquivMaxCalls == 4
CleanupMaxCalls == 2
FailMaxCalls == 3
MaxChannel == 3
TurnMaxCalls == 8
TurnMaxTicks == 2

\* ------------------------------------------------------- program constants
CONFIRMATION_TIMEOUT_MS == 10000
MOVE_TIMEOUT_MS == 30000
maxRetries == 3

\* The clock is read in steps of two confirmation windows.
TickMs == 2 * CONFIRMATION_TIMEOUT_MS

Procs == {"p1", "p2"}
PlayerIds == {"A", "B", "C"}
Colors == {"w", "b"}
\* display names are chosen by the clients and need not be unique
NameOf == [i \in PlayerIds |-> IF i = "B" THEN "bob" ELSE "ann"]
Names == {NameOf[i] : i \in PlayerIds}
\* chess.js is an external collaborator: one legal move per side, which is
\* an illegal request when the other side is to move.
MoveRequests == {"e2e4", "e7e5"}

Nil == [nil |-> TRUE]

VARIABLES
  redisValue,  \* value stored under REDIS_KEY (Nil while the key is absent)
  now,         \* Date.now()
  calls,       \* number of store calls issued so far
  pc,          \* per process: position inside the running store call
  op,          \* per process: the store call in progress
  st,          \* per process: local `state` of updateState / getStateWithExpiration
  origV,       \* per process: originalVersion of the current attempt
  attempt,     \* per process: loop counter of updateState
  ret,         \* per process: value returned by the store call
  found,       \* per process: closure variable of kickPlayerByName
  firstV,      \* per process: version observed by the first attempt of the call
  at,          \* per process: Date.now() of the current attempt
  lin,         \* history: the record obtained by applying the committed writes one after another
  track,       \* run switch: "concurrent" (lin recorded), "serial" (one call at a time, joinSeq / seatSeq recorded),
               \* "fanout", "probe", "turns", "equiv" or "cleanup"
  mem,         \* the InMemoryStore run side by side with the Redis store: its record and what its last call returned
  joinSeq,     \* history: per color, ids in the order their joins committed
  seatSeq,     \* history: per color, ids in the order they were first seated
  disturbed,   \* history: a leave, kick, eviction or clearAll has happened
  rejoin,      \* history, per process: a join of the leaving player overlaps or follows the leave call in progress
  cachedState, \* stateManager: module-level cache of one server process (Nil for null)
  isHydrated,  \* stateManager: module-level flag
  sseClients,  \* stateManager: ids in the registry of SSE clients
  closed,      \* observers whose stream controller throws on enqueue
  channel,     \* per observer: the data messages enqueued on its stream, in order
  conn,        \* per reader: position of its request handler
  hyd,         \* per reader: the three cache reads of its Promise.all
  post,        \* the POST handler of the process between the store write and its response
  hydrateReads, \* number of redis.get commands issued by hydrateFromRedis
  hydFailed,   \* history: a hydration read has failed, and no mutation of this process or forced hydration has followed
  applied,     \* history: highest version passed to updateCache for a mutation of this process (-1: none)
  published,   \* value stored under VERSION_KEY, as [version |-> n] (Nil while the key is absent)
  toPublish,   \* versions written by other processes and not yet published by their writers
  lastSentVersion, \* per observer: closure variable of the stream handler
  poll,        \* per observer: position of the cross-instance poll callback
  stream       \* per observer: how its channel ended ("none" while it has not) and its intervals not yet cleared

vars == <<redisValue, now, calls, pc, op, st, origV, attempt, ret, found, firstV, at,
          lin, track, mem, joinSeq, seatSeq, disturbed, rejoin,
          cachedState, isHydrated, sseClients, closed, channel, conn, hyd, post, hydrateReads,
          applied, hydFailed, published, toPublish, lastSentVersion, poll, stream>>

\* the state of the cross-instance version probe
pollVars == <<published, toPublish, lastSentVersion, poll, stream>>
\* the state of the cache and of the SSE fan-out of one server process
fanVars == <<cachedState, isHydrated, sseClients, closed, channel, conn, hyd, post, hydrateReads,
             applied, hydFailed>>
\* the state of the store calls in progress
callVars == <<pc, op, st, origV, attempt, ret, found, firstV, at,
              lin, track, mem, joinSeq, seatSeq, disturbed, rejoin>>

\* no cache read of a handler is in progress
NoReads == [k \in 1..3 |-> [st |-> "none", val |-> Nil]]
\* the poll callback of a stream is not running
NoPoll == [pc |-> "idle", newer |-> 0, val |-> Nil]
\* a stream handler before its timers are set
NoStream == [how |-> "none", timers |-> {}]

Observers == {"o1", "o2"}
Getters == {"g1"}
Readers == Observers \cup Getters

\* ------------------------------------------------------------ state model
Player(i) == [id |-> i, name |-> NameOf[i]]

StartFen == [turn |-> "w", ply |-> 0]

createDefaultState ==
  [game    |-> [fen |-> StartFen, lastMove |-> Nil, moveHistory |-> <<>>],
   queues  |-> [c \in Colors |-> <<>>],
   current |-> [c \in Colors |-> Nil],
   turns   |-> [c \in Colors |-> Nil],
   version |-> 0]

getTurnFromFen(fen) == fen.turn

Other(c) == IF c = "w" THEN "b" ELSE "w"

\* chess.js: Chess.move on the loaded position; Nil stands for a rejected move.
LegalMoves(fen) == IF fen.turn = "w" THEN {"e2e4"} ELSE {"e7e5"}
San(mv) == IF mv = "e2e4" THEN "e4" ELSE IF mv = "e7e5" THEN "e5" ELSE "??"
ChessMove(fen, mv) ==
  IF mv \in LegalMoves(fen)
    THEN [fen |-> [turn |-> Other(fen.turn), ply |-> fen.ply + 1],
          history |-> <<San(mv)>>]
    ELSE Nil

Pending(t) == [status |-> "pending_confirmation", deadline |-> t + CONFIRMATION_TIMEOUT_MS]
Confirmed(t) == [status |-> "confirmed", deadline |-> t + MOVE_TIMEOUT_MS]

RemoveId(q, i) == SelectSeq(q, LAMBDA x : x.id # i)
RemoveName(q, n) == SelectSeq(q, LAMBDA x : x.name # n)
InSeq(q, i) == \E k \in 1..Len(q) : q[k].id = i

\* variant: every seat assignment starts the confirmation clock
assignNextPlayer_AlwaysClock(s, c, t) ==
  IF Len(s.queues[c]) > 0
    THEN [s EXCEPT !.queues[c] = Tail(s.queues[c]),
                   !.current[c] = Head(s.queues[c]),
                   !.turns[c] = Pending(t)]
    ELSE [s EXCEPT !.current[c] = Nil, !.turns[c] = Nil]

assignNextPlayer(s, c, t) ==
  IF Len(s.queues[c]) > 0
    THEN [s EXCEPT !.queues[c] = Tail(s.queues[c]),
                   !.current[c] = Head(s.queues[c]),
                   !.turns[c] = IF getTurnFromFen(s.game.fen) = c THEN Pending(t) ELSE Nil]
    ELSE [s EXCEPT !.current[c] = Nil, !.turns[c] = Nil]

\* variant: the seat of the new side to move starts its turn confirmed
initializeTurnStateIfNeeded_Confirmed(s, t) ==
  LET c == getTurnFromFen(s.game.fen) IN
  IF s.current[c] # Nil /\ s.turns[c] = Nil
    THEN [s EXCEPT !.turns[c] = Confirmed(t)]
    ELSE s

initializeTurnStateIfNeeded(s, t) ==
  LET c == getTurnFromFen(s.game.fen) IN
  IF s.current[c] # Nil /\ s.turns[c] = Nil
    THEN [s EXCEPT !.turns[c] = Pending(t)]
    ELSE s

\* variant: a passed deadline evicts the seated player of either color
checkAndExpireTurnsInline_AnyColor(s, t) ==
  LET c == getTurnFromFen(s.game.fen)
      o == Other(c)
      late == s.current[o] # Nil /\ s.turns[o] # Nil /\ t > s.turns[o].deadline
      s0 == IF late
              THEN assignNextPlayer([s EXCEPT !.current[o] = Nil, !.turns[o] = Nil], o, t)
              ELSE s
  IN
  IF s0.current[c] # Nil
    THEN IF s0.turns[c] # Nil
           THEN IF t > s0.turns[c].deadline
                  THEN [state |-> assignNextPlayer(
                                    [s0 EXCEPT !.current[c] = Nil, !.turns[c] = Nil], c, t),
                        changed |-> TRUE]
                  ELSE [state |-> s0, changed |-> late]
           ELSE [state |-> [s0 EXCEPT !.turns[c] = Pending(t)], changed |-> TRUE]
    ELSE [state |-> s0, changed |-> late]

\* variant: only a pending confirmation runs out, a confirmed turn never does
checkAndExpireTurnsInline_PendingOnly(s, t) ==
  LET c == getTurnFromFen(s.game.fen) IN
  IF s.current[c] # Nil
    THEN IF s.turns[c] # Nil
           THEN IF t > s.turns[c].deadline /\ s.turns[c].status = "pending_confirmation"
                  THEN [state |-> assignNextPlayer(
                                    [s EXCEPT !.current[c] = Nil, !.turns[c] = Nil], c, t),
                        changed |-> TRUE]
                  ELSE [state |-> s, changed |-> FALSE]
           ELSE [state |-> [s EXCEPT !.turns[c] = Pending(t)], changed |-> TRUE]
    ELSE [state |-> s, changed |-> FALSE]

checkAndExpireTurnsInline(s, t) ==
  LET c == getTurnFromFen(s.game.fen) IN
  IF s.current[c] # Nil
    THEN IF s.turns[c] # Nil
           THEN IF t > s.turns[c].deadline
                  THEN [state |-> assignNextPlayer(
                                    [s EXCEPT !.current[c] = Nil, !.turns[c] = Nil], c, t),
                        changed |-> TRUE]
                  ELSE [state |-> s, changed |-> FALSE]
           ELSE [state |-> [s EXCEPT !.turns[c] = Pending(t)], changed |-> TRUE]
    ELSE [state |-> s, changed |-> FALSE]

\* ------------------------------------------------- modifiers of updateState
Ok(s) == [success |-> TRUE, error |-> "", state |-> s, found |-> FALSE]
Fail(s, e) == [success |-> FALSE, error |-> e, state |-> s, found |-> FALSE]

\* variant: the holder of the seat may queue again for the same color
JoinMod_NoSeatCheck(s, i, c, t) ==
  IF InSeq(s.queues[c], i) THEN Fail(s, "Already in queue")
  ELSE LET s1 == [s EXCEPT !.queues[c] = Append(@, Player(i))] IN
       Ok(IF s.current[c] = Nil THEN assignNextPlayer(s1, c, t) ELSE s1)

\* variant: the joining player is put at the head of the queue
JoinMod_Unshift(s, i, c, t) ==
  IF InSeq(s.queues[c], i) THEN Fail(s, "Already in queue")
  ELSE IF s.current[c] # Nil /\ s.current[c].id = i THEN Fail(s, "Already playing")
  ELSE LET s1 == [s EXCEPT !.queues[c] = <<Player(i)>> \o @] IN
       Ok(IF s.current[c] = Nil THEN assignNextPlayer(s1, c, t) ELSE s1)

JoinMod(s, i, c, t) ==
  IF InSeq(s.queues[c], i) THEN Fail(s, "Already in queue")
  ELSE IF s.current[c] # Nil /\ s.current[c].id = i THEN Fail(s, "Already playing")
  ELSE LET s1 == [s EXCEPT !.queues[c] = Append(@, Player(i))] IN
       Ok(IF s.current[c] = Nil THEN assignNextPlayer(s1, c, t) ELSE s1)

\* variant: a vacated seat stays empty, nobody is taken from the queue
LeaveSeat_NoAssign(s, c, hit, t) ==
  IF hit THEN [s EXCEPT !.current[c] = Nil, !.turns[c] = Nil]
         ELSE s

\* variant: the seat is vacated without clearing its turn state when nobody waits
LeaveSeat_KeepsTurn(s, c, hit, t) ==
  IF hit THEN IF Len(s.queues[c]) > 0
                THEN assignNextPlayer([s EXCEPT !.current[c] = Nil, !.turns[c] = Nil], c, t)
                ELSE [s EXCEPT !.current[c] = Nil]
         ELSE s

LeaveSeat(s, c, hit, t) ==
  IF hit THEN assignNextPlayer([s EXCEPT !.current[c] = Nil, !.turns[c] = Nil], c, t)
         ELSE s

\* variant: a leave vacates every occupied seat, whoever holds it
LeaveMod_AnySeat(s, i, t) ==
  LET s0 == [s EXCEPT !.queues = [c \in Colors |-> RemoveId(s.queues[c], i)]]
      s1 == LeaveSeat(s0, "w", s0.current["w"] # Nil, t)
      s2 == LeaveSeat(s1, "b", s1.current["b"] # Nil, t)
  IN Ok(s2)

LeaveMod(s, i, t) ==
  LET s0 == [s EXCEPT !.queues = [c \in Colors |-> RemoveId(s.queues[c], i)]]
      s1 == LeaveSeat(s0, "w", s0.current["w"] # Nil /\ s0.current["w"].id = i, t)
      s2 == LeaveSeat(s1, "b", s1.current["b"] # Nil /\ s1.current["b"].id = i, t)
  IN Ok(s2)

ConfirmMod(s, i, t) ==
  LET c == getTurnFromFen(s.game.fen) IN
  IF s.current[c] = Nil \/ s.current[c].id # i THEN Fail(s, "Not your turn")
  ELSE IF s.turns[c] = Nil \/ s.turns[c].status # "pending_confirmation"
    THEN Fail(s, "No confirmation needed")
  ELSE IF t > s.turns[c].deadline THEN Fail(s, "Confirmation timeout")
  ELSE Ok([s EXCEPT !.turns[c] = Confirmed(t)])

\* variant: a move chess.js rejects is reported as made, the record unchanged
MoveMod_IllegalAccepted(s, i, mv, t) ==
  LET c == getTurnFromFen(s.game.fen)
      m == ChessMove(s.game.fen, mv) IN
  IF s.current[c] = Nil \/ s.current[c].id # i THEN Fail(s, "Not your turn")
  ELSE IF s.turns[c] = Nil \/ s.turns[c].status # "confirmed"
    THEN Fail(s, "Please confirm you are ready first")
  ELSE IF t > s.turns[c].deadline THEN Fail(s, "Move timeout - you took too long")
  ELSE IF m = Nil THEN Ok(s)
  ELSE LET s1 == [s EXCEPT !.game = [fen |-> m.fen, lastMove |-> mv, moveHistory |-> m.history],
                           !.queues[c] = Append(@, s.current[c])]
           s2 == assignNextPlayer([s1 EXCEPT !.current[c] = Nil, !.turns[c] = Nil], c, t)
       IN Ok(initializeTurnStateIfNeeded(s2, t))

\* variant: the mover is not returned to the queue of its color
\* variant: the mover is put at the head of its queue
MoveMod_JumpsQueue(s, i, mv, t) ==
  LET c == getTurnFromFen(s.game.fen)
      m == ChessMove(s.game.fen, mv) IN
  IF s.current[c] = Nil \/ s.current[c].id # i THEN Fail(s, "Not your turn")
  ELSE IF s.turns[c] = Nil \/ s.turns[c].status # "confirmed"
    THEN Fail(s, "Please confirm you are ready first")
  ELSE IF t > s.turns[c].deadline THEN Fail(s, "Move timeout - you took too long")
  ELSE IF m = Nil THEN Fail(s, "Invalid move")
  ELSE LET s1 == [s EXCEPT !.game = [fen |-> m.fen, lastMove |-> mv, moveHistory |-> m.history],
                           !.queues[c] = <<s.current[c]>> \o @]
           s2 == assignNextPlayer([s1 EXCEPT !.current[c] = Nil, !.turns[c] = Nil], c, t)
       IN Ok(initializeTurnStateIfNeeded(s2, t))

MoveMod_NoRequeue(s, i, mv, t) ==
  LET c == getTurnFromFen(s.game.fen)
      m == ChessMove(s.game.fen, mv) IN
  IF s.current[c] = Nil \/ s.current[c].id # i THEN Fail(s, "Not your turn")
  ELSE IF s.turns[c] = Nil \/ s.turns[c].status # "confirmed"
    THEN Fail(s, "Please confirm you are ready first")
  ELSE IF t > s.turns[c].deadline THEN Fail(s, "Move timeout - you took too long")
  ELSE IF m = Nil THEN Fail(s, "Invalid move")
  ELSE LET s1 == [s EXCEPT !.game = [fen |-> m.fen, lastMove |-> mv, moveHistory |-> m.history]]
           s2 == assignNextPlayer([s1 EXCEPT !.current[c] = Nil, !.turns[c] = Nil], c, t)
       IN Ok(initializeTurnStateIfNeeded(s2, t))

MoveMod(s, i, mv, t) ==
  LET c == getTurnFromFen(s.game.fen)
      m == ChessMove(s.game.fen, mv) IN
  IF s.current[c] = Nil \/ s.current[c].id # i THEN Fail(s, "Not your turn")
  ELSE IF s.turns[c] = Nil \/ s.turns[c].status # "confirmed"
    THEN Fail(s, "Please confirm you are ready first")
  ELSE IF t > s.turns[c].deadline THEN Fail(s, "Move timeout - you took too long")
  ELSE IF m = Nil THEN Fail(s, "Invalid move")
  ELSE LET s1 == [s EXCEPT !.game = [fen |-> m.fen, lastMove |-> mv, moveHistory |-> m.history],
                           !.queues[c] = Append(@, s.current[c])]
           s2 == assignNextPlayer([s1 EXCEPT !.current[c] = Nil, !.turns[c] = Nil], c, t)
       IN Ok(initializeTurnStateIfNeeded(s2, t))

ResetMod(s) ==
  Ok([s EXCEPT !.game = [fen |-> StartFen, lastMove |-> Nil, moveHistory |-> <<>>]])

KickSeat(s, c, n, t) ==
  IF s.current[c] # Nil /\ s.current[c].name = n
    THEN assignNextPlayer([s EXCEPT !.current[c] = Nil, !.turns[c] = Nil], c, t)
    ELSE s

KickMod(s, n, t) ==
  LET s0 == [s EXCEPT !.queues = [c \in Colors |-> RemoveName(s.queues[c], n)]]
      s1 == KickSeat(s0, "w", n, t)
      s2 == KickSeat(s1, "b", n, t)
      hit == \/ \E c \in Colors : Len(s0.queues[c]) # Len(s.queues[c])
             \/ s0.current["w"] # Nil /\ s0.current["w"].name = n
             \/ s1.current["b"] # Nil /\ s1.current["b"].name = n
  IN [Ok(s2) EXCEPT !.found = hit]

\* the store calls a process can issue
NoOp == [kind |-> "none", player |-> "-", color |-> "-", mv |-> "-", name |-> "-"]
JoinOp(i, c) == [NoOp EXCEPT !.kind = "join", !.player = i, !.color = c]
LeaveOp(i) == [NoOp EXCEPT !.kind = "leave", !.player = i]
ConfirmOp(i) == [NoOp EXCEPT !.kind = "confirmReady", !.player = i]
MoveOp(i, mv) == [NoOp EXCEPT !.kind = "makeMove", !.player = i, !.mv = mv]
ResetOp == [NoOp EXCEPT !.kind = "resetGame"]
KickOp(n) == [NoOp EXCEPT !.kind = "kickPlayerByName", !.name = n]
ClearOp == [NoOp EXCEPT !.kind = "clearAllQueues"]
ReadOp == [NoOp EXCEPT !.kind = "getState"]

Modifier(o, s, t) ==
  CASE o.kind = "join" -> JoinMod(s, o.player, o.color, t)
    [] o.kind = "leave" -> LeaveMod(s, o.player, t)
    [] o.kind = "confirmReady" -> ConfirmMod(s, o.player, t)
    [] o.kind = "makeMove" -> MoveMod(s, o.player, o.mv, t)
    [] o.kind = "resetGame" -> ResetMod(s)
    [] o.kind = "kickPlayerByName" -> KickMod(s, o.name, t)

\* redis.get(REDIS_KEY) followed by `if (!state) state = createDefaultState()`
StoredOf(v) == IF v = Nil THEN createDefaultState ELSE v
Stored == StoredOf(redisValue)

\* One pass of the loop body of updateState up to the version bump:
\* lines 655-670 run without an await after the first get returns.
Attempt(o, s, t) ==
  LET e == checkAndExpireTurnsInline(s, t).state
      r == Modifier(o, e, t)
  IN [success |-> r.success, error |-> r.error, found |-> r.found,
      originalVersion |-> e.version,
      state |-> IF r.success THEN [r.state EXCEPT !.version = @ + 1] ELSE r.state]

NoRet == [success |-> FALSE, error |-> "-"]

\* InMemoryStore after construction: `state = createDefaultState()`, no call made
NoMem == [state |-> createDefaultState, ret |-> NoRet, found |-> FALSE, out |-> createDefaultState]

\* ------------------------------------------------------------------ Init
InitWith(mode) ==
  /\ redisValue = Nil
  /\ now = 0
  /\ calls = 0
  /\ pc = [p \in Procs |-> "idle"]
  /\ op = [p \in Procs |-> NoOp]
  /\ st = [p \in Procs |-> createDefaultState]
  /\ origV = [p \in Procs |-> 0]
  /\ attempt = [p \in Procs |-> 0]
  /\ ret = [p \in Procs |-> NoRet]
  /\ found = [p \in Procs |-> FALSE]
  /\ firstV = [p \in Procs |-> 0]
  /\ at = [p \in Procs |-> 0]
  /\ lin = createDefaultState
  /\ track = mode
  /\ mem = NoMem
  /\ joinSeq = [c \in Colors |-> <<>>]
  /\ seatSeq = [c \in Colors |-> <<>>]
  /\ disturbed = FALSE
  /\ rejoin = [p \in Procs |-> FALSE]
  /\ cachedState = Nil
  /\ isHydrated = FALSE
  /\ sseClients = {}
  /\ closed = {}
  /\ channel = [o \in Observers |-> <<>>]
  /\ conn = [r \in Readers |-> "off"]
  /\ hyd = [r \in Readers |-> NoReads]
  /\ post = [pc |-> "idle", state |-> Nil]
  /\ hydrateReads = 0
  /\ applied = -1
  /\ hydFailed = FALSE
  /\ published = Nil
  /\ toPublish = {}
  /\ lastSentVersion = [o \in Observers |-> 0]
  /\ poll = [o \in Observers |-> NoPoll]
  /\ stream = [o \in Observers |-> NoStream]

Init == InitWith("concurrent")

CallCap == IF track = "serial" THEN SerialMaxCalls
           ELSE IF track = "fanout" THEN FanMaxCalls
           ELSE IF track = "probe" THEN ProbeMaxCalls
           ELSE IF track = "turns" THEN TurnMaxCalls
           ELSE IF track = "equiv" THEN EquivMaxCalls
           ELSE IF track = "cleanup" THEN CleanupMaxCalls
           ELSE IF track = "failure" THEN FailMaxCalls ELSE MaxCalls
\* the players that send requests in a run
Requesters == IF track = "serial" THEN PlayerIds
              ELSE IF track \in {"turns", "equiv"} THEN {"A", "B"} ELSE {"A"}
RequestedNames == {NameOf[i] : i \in Requesters}
MaxTime == (IF track = "serial" THEN SerialMaxTicks
            ELSE IF track \in {"turns", "equiv"} THEN TurnMaxTicks ELSE MaxTicks) * TickMs

\* ------------------------------------------------------- history variables
\* ids newly seated by a write of record s, appended per color
Seated(seq, s) ==
  [c \in Colors |->
     IF s.current[c] # Nil /\ ~(\E k \in 1..Len(seq[c]) : seq[c][k] = s.current[c].id)
       THEN Append(seq[c], s.current[c].id) ELSE seq[c]]

\* does the call o, started on record s at time t, remove a player for a
\* reason other than that player's own move?
Disturbs(o, s, t) ==
  LET c == getTurnFromFen(s.game.fen) IN
  \/ o.kind \in {"leave", "kickPlayerByName", "clearAllQueues"}
  \/ s.current[c] # Nil /\ s.turns[c] # Nil /\ t > s.turns[c].deadline

HistStart(o) ==
  IF track = "serial"
    THEN /\ disturbed' = (disturbed \/ Disturbs(o, Stored, now))
         /\ UNCHANGED <<joinSeq, seatSeq>>
    ELSE UNCHANGED <<joinSeq, seatSeq, disturbed>>

\* process p starts attempt k of call o: a join of player i marks every leave
\* call of i in progress, and a leave of i is marked from the start when a
\* join of i is in progress
HistJoin(p, o, k) ==
  rejoin' = IF k > 0 THEN rejoin
            ELSE [q \in Procs |->
                    IF q = p
                      THEN o.kind = "leave" /\
                           \E r \in Procs \ {p} : op[r].kind = "join" /\ op[r].player = o.player
                      ELSE rejoin[q] \/
                           (o.kind = "join" /\ op[q].kind = "leave" /\ op[q].player = o.player)]

\* a write of record s by process p
HistWrite(p, s) ==
  /\ lin' = IF track # "concurrent" THEN lin
            ELSE IF op[p].kind = "clearAllQueues" THEN createDefaultState
            ELSE IF op[p].kind = "getState"
              THEN LET e == checkAndExpireTurnsInline(lin, at[p]) IN
                   IF e.changed THEN [e.state EXCEPT !.version = @ + 1] ELSE lin
            ELSE LET a == Attempt(op[p], lin, at[p]) IN
                 IF a.success THEN a.state ELSE lin
  /\ IF track = "serial" /\ ~disturbed
       THEN /\ joinSeq' = IF op[p].kind = "join"
                            THEN [joinSeq EXCEPT ![op[p].color] = Append(@, op[p].player)]
                            ELSE joinSeq
            /\ seatSeq' = Seated(seatSeq, s)
       ELSE /\ joinSeq' = [c \in Colors |-> <<>>]
            /\ seatSeq' = [c \in Colors |-> <<>>]
  /\ UNCHANGED disturbed

\* ---------------------------------------------------------------- actions
\* variant: a business failure stores the record the attempt worked on
RunAttempt_WritesOnFailure(p, o, k) ==
  LET a == Attempt(o, Stored, now) IN
  /\ op' = [op EXCEPT ![p] = o]
  /\ attempt' = [attempt EXCEPT ![p] = k]
  /\ st' = [st EXCEPT ![p] = a.state]
  /\ origV' = [origV EXCEPT ![p] = a.originalVersion]
  /\ found' = [found EXCEPT ![p] = (k > 0 /\ found[p]) \/ a.found]
  /\ firstV' = [firstV EXCEPT ![p] = IF k = 0 THEN a.originalVersion ELSE @]
  /\ at' = [at EXCEPT ![p] = IF track = "concurrent" THEN now ELSE 0]
  /\ IF a.success
       THEN /\ pc' = [pc EXCEPT ![p] = "modified"]
            /\ UNCHANGED <<ret, redisValue>>
       ELSE /\ pc' = [pc EXCEPT ![p] = "done"]
            /\ ret' = [ret EXCEPT ![p] = [success |-> FALSE, error |-> a.error]]
            /\ redisValue' = a.state
  /\ calls' = IF k = 0 THEN calls + 1 ELSE calls
  /\ HistStart(o)
  /\ HistJoin(p, o, k)
  /\ UNCHANGED <<now, lin, track, mem, fanVars, pollVars>>

\* updateState, lines 652-670: first get, lazy expiry, modifier, version bump.
\* A business failure returns at once (line 667); otherwise the call goes on
\* to the second get.
RunAttempt(p, o, k) ==
  LET a == Attempt(o, Stored, now) IN
  /\ op' = [op EXCEPT ![p] = o]
  /\ attempt' = [attempt EXCEPT ![p] = k]
  /\ st' = [st EXCEPT ![p] = a.state]
  /\ origV' = [origV EXCEPT ![p] = a.originalVersion]
  /\ found' = [found EXCEPT ![p] = (k > 0 /\ found[p]) \/ a.found]
  /\ firstV' = [firstV EXCEPT ![p] = IF k = 0 THEN a.originalVersion ELSE @]
  /\ at' = [at EXCEPT ![p] = IF track = "concurrent" THEN now ELSE 0]
  /\ IF a.success
       THEN /\ pc' = [pc EXCEPT ![p] = "modified"]
            /\ UNCHANGED ret
       ELSE /\ pc' = [pc EXCEPT ![p] = "done"]
            /\ ret' = [ret EXCEPT ![p] = [success |-> FALSE, error |-> a.error]]
  /\ calls' = IF k = 0 THEN calls + 1 ELSE calls
  /\ HistStart(o)
  /\ HistJoin(p, o, k)
  /\ UNCHANGED <<redisValue, now, lin, track, mem, fanVars, pollVars>>

Begin(p, o) ==
  /\ pc[p] = "idle"
  /\ calls < CallCap
  /\ RunAttempt(p, o, 0)

JoinQueue(p) == \E i \in Requesters, c \in Colors : Begin(p, JoinOp(i, c))
LeaveQueue(p) == \E i \in Requesters : Begin(p, LeaveOp(i))
ConfirmReady(p) == \E i \in Requesters : Begin(p, ConfirmOp(i))
MakeMove(p) ==
  \E i \in Requesters, mv \in MoveRequests : Begin(p, MoveOp(i, mv))
ResetGame(p) == Begin(p, ResetOp)
KickPlayerByName(p) == \E n \in RequestedNames : Begin(p, KickOp(n))

\* variant: the next pass works on the record read by the previous pass
UpdRetry_KeepsStale(p) ==
  /\ pc[p] = "retry"
  /\ pc' = [pc EXCEPT ![p] = "modified"]
  /\ UNCHANGED <<redisValue, now, calls, op, st, origV, attempt, ret, found, firstV, at,
                 lin, track, mem, joinSeq, seatSeq, disturbed, rejoin, fanVars, pollVars>>

\* updateState, next pass of the loop after a conflict: re-reads the record
UpdRetry(p) ==
  /\ pc[p] = "retry"
  /\ RunAttempt(p, op[p], attempt[p])

\* updateState, lines 674-681: second get and version comparison
UpdCheck(p) ==
  /\ pc[p] = "modified"
  /\ IF Stored.version # origV[p]
       THEN IF attempt[p] + 1 < maxRetries
              THEN /\ pc' = [pc EXCEPT ![p] = "retry"]
                   /\ attempt' = [attempt EXCEPT ![p] = @ + 1]
                   /\ UNCHANGED <<st, ret>>
              ELSE /\ pc' = [pc EXCEPT ![p] = "done"]
                   /\ st' = [st EXCEPT ![p] = createDefaultState]
                   /\ ret' = [ret EXCEPT ![p] =
                        [success |-> FALSE, error |-> "Concurrent modification - please retry"]]
                   /\ UNCHANGED attempt
       ELSE /\ pc' = [pc EXCEPT ![p] = "checked"]
            /\ UNCHANGED <<attempt, st, ret>>
  /\ UNCHANGED <<redisValue, now, calls, op, origV, found, firstV, at,
                 lin, track, mem, joinSeq, seatSeq, disturbed, rejoin, fanVars, pollVars>>

\* updateState, lines 684-685: redis.set of the modified record
UpdWrite(p) ==
  /\ pc[p] = "checked"
  /\ redisValue' = st[p]
  /\ pc' = [pc EXCEPT ![p] = "done"]
  /\ ret' = [ret EXCEPT ![p] = [success |-> TRUE, error |-> ""]]
  /\ HistWrite(p, st[p])
  /\ UNCHANGED <<now, calls, op, st, origV, attempt, found, firstV, at, track, mem, rejoin, fanVars, pollVars>>

\* getStateWithExpiration, lines 620-626: get and lazy expiry
GetState(p) ==
  /\ pc[p] = "idle"
  /\ calls < CallCap
  /\ op' = [op EXCEPT ![p] = ReadOp]
  /\ at' = [at EXCEPT ![p] = IF track = "concurrent" THEN now ELSE 0]
  /\ IF redisValue = Nil
       THEN /\ st' = [st EXCEPT ![p] = createDefaultState]
            /\ pc' = [pc EXCEPT ![p] = "done"]
       ELSE LET e == checkAndExpireTurnsInline(redisValue, now) IN
            IF e.changed
              THEN /\ st' = [st EXCEPT ![p] = [e.state EXCEPT !.version = @ + 1]]
                   /\ pc' = [pc EXCEPT ![p] = "rdwrite"]
              ELSE /\ st' = [st EXCEPT ![p] = e.state]
                   /\ pc' = [pc EXCEPT ![p] = "done"]
  /\ ret' = [ret EXCEPT ![p] = [success |-> TRUE, error |-> ""]]
  /\ calls' = calls + 1
  /\ HistStart(ReadOp)
  /\ UNCHANGED <<redisValue, now, origV, attempt, found, firstV, lin, track, mem, rejoin, fanVars, pollVars>>

\* getStateWithExpiration, line 629: write-back of the expired record
GetStateWriteBack(p) ==
  /\ pc[p] = "rdwrite"
  /\ redisValue' = st[p]
  /\ pc' = [pc EXCEPT ![p] = "done"]
  /\ HistWrite(p, st[p])
  /\ UNCHANGED <<now, calls, op, st, origV, attempt, ret, found, firstV, at, track, mem, rejoin, fanVars, pollVars>>

\* a getState whose redis.get throws
ReadFailOp == [ReadOp EXCEPT !.mv = "throws"]

\* getStateWithExpiration, outer catch: the get throws, the default record is
\* returned to the caller
GetStateFail(p) ==
  /\ pc[p] = "idle"
  /\ calls < CallCap
  /\ op' = [op EXCEPT ![p] = ReadFailOp]
  /\ st' = [st EXCEPT ![p] = createDefaultState]
  /\ pc' = [pc EXCEPT ![p] = "done"]
  /\ ret' = [ret EXCEPT ![p] = [success |-> TRUE, error |-> ""]]
  /\ calls' = calls + 1
  /\ HistStart(ReadOp)
  /\ UNCHANGED <<redisValue, now, origV, attempt, found, firstV, at, lin, track, mem, rejoin, fanVars, pollVars>>

\* clearAllQueues, line 870
ClearAllQueues(p) ==
  /\ pc[p] = "idle"
  /\ calls < CallCap
  /\ calls' = calls + 1
  /\ redisValue' = createDefaultState
  /\ pc' = [pc EXCEPT ![p] = "done"]
  /\ op' = [op EXCEPT ![p] = ClearOp]
  /\ st' = [st EXCEPT ![p] = createDefaultState]
  /\ ret' = [ret EXCEPT ![p] = [success |-> TRUE, error |-> ""]]
  /\ lin' = IF track = "concurrent" THEN createDefaultState ELSE lin
  /\ disturbed' = (disturbed \/ track = "serial")
  /\ joinSeq' = [c \in Colors |-> <<>>]
  /\ seatSeq' = [c \in Colors |-> <<>>]
  /\ UNCHANGED <<now, origV, attempt, found, firstV, at, track, mem, rejoin, fanVars, pollVars>>

\* the call returns to its caller; the process is free for the next request
Return(p) ==
  /\ pc[p] = "done"
  /\ pc' = [pc EXCEPT ![p] = "idle"]
  /\ op' = [op EXCEPT ![p] = NoOp]
  /\ st' = [st EXCEPT ![p] = createDefaultState]
  /\ origV' = [origV EXCEPT ![p] = 0]
  /\ attempt' = [attempt EXCEPT ![p] = 0]
  /\ ret' = [ret EXCEPT ![p] = NoRet]
  /\ found' = [found EXCEPT ![p] = FALSE]
  /\ firstV' = [firstV EXCEPT ![p] = 0]
  /\ at' = [at EXCEPT ![p] = 0]
  /\ rejoin' = [rejoin EXCEPT ![p] = FALSE]
  /\ UNCHANGED <<redisValue, now, calls, lin, track, mem, joinSeq, seatSeq, disturbed, fanVars, pollVars>>

\* time passes
Tick ==
  /\ now < MaxTime
  /\ now' = now + TickMs
  /\ UNCHANGED <<redisValue, calls, pc, op, st, origV, attempt, ret, found, firstV, at,
                 lin, track, mem, joinSeq, seatSeq, disturbed, rejoin, fanVars, pollVars>>

Next ==
  \/ \E p \in Procs : JoinQueue(p)
  \/ \E p \in Procs : LeaveQueue(p)
  \/ \E p \in Procs : ConfirmReady(p)
  \/ \E p \in Procs : MakeMove(p)
  \/ \E p \in Procs : ResetGame(p)
  \/ \E p \in Procs : KickPlayerByName(p)
  \/ \E p \in Procs : UpdRetry(p)
  \/ \E p \in Procs : UpdCheck(p)
  \/ \E p \in Procs : UpdWrite(p)
  \/ \E p \in Procs : GetState(p)
  \/ \E p \in Procs : GetStateWriteBack(p)
  \/ \E p \in Procs : ClearAllQueues(p)
  \/ \E p \in Procs : Return(p)
  \/ Tick

Spec == Init /\ [][Next]_vars

\* One server process, one store call at a time.
SerialInit == InitWith("serial")

SerialNext ==
  \/ JoinQueue("p1")
  \/ LeaveQueue("p1")
  \/ ConfirmReady("p1")
  \/ MakeMove("p1")
  \/ ResetGame("p1")
  \/ KickPlayerByName("p1")
  \/ UpdCheck("p1")
  \/ UpdWrite("p1")
  \/ GetState("p1")
  \/ GetStateWriteBack("p1")
  \/ ClearAllQueues("p1")
  \/ Return("p1")
  \/ Tick

SpecSerial == SerialInit /\ [][SerialNext]_vars

\* One server process, one store call at a time, two players who each play
\* one color (A white, B black): long games with resets in between.
TurnsInit == InitWith("turns")

JoinOwnColor(p) == Begin(p, JoinOp("A", "w")) \/ Begin(p, JoinOp("B", "b"))

TurnsNext ==
  \/ JoinOwnColor("p1")
  \/ ConfirmReady("p1")
  \/ MakeMove("p1")
  \/ ResetGame("p1")
  \/ UpdCheck("p1")
  \/ UpdWrite("p1")
  \/ GetState("p1")
  \/ GetStateWriteBack("p1")
  \/ Return("p1")
  \/ Tick

SpecTurns == TurnsInit /\ [][TurnsNext]_vars

\* ------------------------------------------ cache and SSE fan-out (one process)
\* the player id sent by each reader in the player-id header ("-" for none)
ViewerOf == [r \in Readers |-> IF r = "o1" THEN "A" ELSE "-"]

deriveGameState(s) == s.game
deriveQueueState(s) == [queues |-> s.queues, current |-> s.current, turns |-> s.turns]

\* createHash('sha256').update(playerId).digest('base64url').slice(0, 16):
\* a value fixed by the id alone, unlike the id
Sha256Prefix(i) ==
  CASE i = "A" -> "VZrq0IJk1XldOQlx"
    [] i = "B" -> "335w5QIVRPSDS77m"
    [] i = "C" -> "a4ayc_80_OGda4BO"
    [] OTHER -> "47DEQpj8HBSa-_TI"
toPublicPlayerId(i) == "anon_" \o Sha256Prefix(i)

\* variant: a request without a player id is served the real ids
toPublicPlayer_PublicSeesAll(x, viewer) ==
  IF x.id = viewer \/ viewer = "-" THEN x ELSE [x EXCEPT !.id = toPublicPlayerId(x.id)]

toPublicPlayer(x, viewer) ==
  IF x.id = viewer THEN x ELSE [x EXCEPT !.id = toPublicPlayerId(x.id)]
toPublicQueueState(q, viewer) ==
  [queues  |-> [c \in Colors |->
                  [k \in 1..Len(q.queues[c]) |-> toPublicPlayer(q.queues[c][k], viewer)]],
   current |-> [c \in Colors |->
                  IF q.current[c] = Nil THEN Nil ELSE toPublicPlayer(q.current[c], viewer)],
   turns   |-> q.turns]

\* the first event of a stream: { game, queue, version }
InitialMsg(r, g, q, v) ==
  [game |-> deriveGameState(g),
   queue |-> toPublicQueueState(deriveQueueState(q), ViewerOf[r]),
   version |-> v.version]
\* the payload of broadcastVersionChange
UpdateMsg(v) == [type |-> "update", version |-> v]

\* the two intervals and the timeout a stream handler sets after its initial
\* event: heartbeat (25 s), cross-instance poll (2 s), cleanup (55 s)
AllTimers == {"heartbeat", "poll", "timeout"}

\* the timers and the end of the channel are followed in the cleanup runs only
SetStream(o, v) ==
  stream' = IF track = "cleanup" THEN [stream EXCEPT ![o] = v] ELSE stream

\* sendEvent of the stream handler of observer o: nothing is enqueued once the
\* handler is inactive or the controller throws
sendEvent(o, m, active) ==
  channel' = IF active /\ o \notin closed
               THEN [channel EXCEPT ![o] = Append(@, m)] ELSE channel

\* the number of hydration reads awaiting their response
ReadsInFlight ==
  Cardinality({rk \in Readers \X (1..3) : hyd[rk[1]][rk[2]].st \in {"sent", "served"}})

\* getCachedState after hydration: `cachedState || createDefaultState()`
CacheValue == StoredOf(cachedState)

\* stream GET, start(): registerSSEClient, then the Promise.all of
\* getCachedGameState, getCachedQueueState and getCachedVersion. On a
\* hydrated cache the three reads resolve without leaving the process and the
\* initial event follows at once; otherwise each of the three calls finds
\* isHydrated false and issues its own redis.get.
Connect(o) ==
  /\ conn[o] = "off"
  /\ ReadsInFlight < MaxReadsInFlight
  /\ sseClients' = sseClients \cup {o}
  /\ IF isHydrated
       THEN /\ conn' = [conn EXCEPT ![o] = "live"]
            /\ lastSentVersion' = [lastSentVersion EXCEPT ![o] = CacheValue.version]
            /\ sendEvent(o, InitialMsg(o, CacheValue, CacheValue, CacheValue), TRUE)
            /\ SetStream(o, [stream[o] EXCEPT !.timers = AllTimers])
            /\ UNCHANGED <<hyd, hydrateReads>>
       ELSE /\ conn' = [conn EXCEPT ![o] = "hydrating"]
            /\ hyd' = [hyd EXCEPT ![o] = [k \in 1..3 |-> [st |-> "sent", val |-> Nil]]]
            /\ hydrateReads' = hydrateReads + 3
            /\ UNCHANGED <<channel, lastSentVersion, stream>>
  /\ UNCHANGED <<redisValue, now, calls, callVars, published, toPublish, poll, cachedState, isHydrated, closed, post,
                 applied, hydFailed>>

\* GET /api/game: the same three cache reads, answered in the response
Get(g) ==
  /\ conn[g] = "off"
  /\ ReadsInFlight < MaxReadsInFlight
  /\ IF isHydrated
       THEN /\ conn' = [conn EXCEPT ![g] = "served"]
            /\ UNCHANGED <<hyd, hydrateReads>>
       ELSE /\ conn' = [conn EXCEPT ![g] = "hydrating"]
            /\ hyd' = [hyd EXCEPT ![g] = [k \in 1..3 |-> [st |-> "sent", val |-> Nil]]]
            /\ hydrateReads' = hydrateReads + 3
  /\ UNCHANGED <<redisValue, now, calls, callVars, pollVars, cachedState, isHydrated, sseClients,
                 closed, channel, post, applied, hydFailed>>

\* Redis answers the get of hydrateFromRedis
HydrateServe(r, k) ==
  /\ hyd[r][k].st = "sent"
  /\ hyd' = [hyd EXCEPT ![r][k] = [st |-> "served", val |-> redisValue]]
  /\ UNCHANGED <<redisValue, now, calls, callVars, pollVars, cachedState, isHydrated, sseClients,
                 closed, channel, conn, post, hydrateReads, applied, hydFailed>>

\* hydrateFromRedis after its awaited get, with c the record it assigns to
\* the cache; getCachedState returns the cache; when the last of the three
\* reads has returned, the handler sends the initial event (stream) or the
\* response (GET) and its three results are dropped
HydrateReturn(r, k, c) ==
  LET h == [hyd[r] EXCEPT ![k] = [st |-> "done", val |-> c]]
      all == \A j \in 1..3 : h[j].st = "done"
  IN /\ cachedState' = c
     /\ isHydrated' = TRUE
     /\ hyd' = [hyd EXCEPT ![r] = IF all THEN NoReads ELSE h]
     /\ IF all /\ conn[r] = "hydrating"
          THEN conn' = [conn EXCEPT ![r] = IF r \in Observers THEN "live" ELSE "served"]
          ELSE UNCHANGED conn
     /\ IF all /\ r \in Observers
          THEN /\ lastSentVersion' = [lastSentVersion EXCEPT ![r] = h[3].val.version]
               /\ sendEvent(r, InitialMsg(r, h[1].val, h[2].val, h[3].val), conn[r] = "hydrating")
               /\ SetStream(r, [stream[r] EXCEPT !.timers = AllTimers])
          ELSE UNCHANGED <<channel, lastSentVersion, stream>>
     /\ UNCHANGED <<redisValue, now, calls, callVars, published, toPublish, poll, sseClients, closed, post, hydrateReads,
                    applied>>

\* the response of the get arrives: hydrateFromRedis stores the value read in
\* the cache
HydrateDone(r, k) ==
  /\ hyd[r][k].st = "served"
  /\ HydrateReturn(r, k, StoredOf(hyd[r][k].val))
  /\ UNCHANGED hydFailed

\* the get of hydrateFromRedis throws: the catch branch stores the default
\* record in the cache and sets isHydrated
HydrateFail(r, k) ==
  /\ hyd[r][k].st = "sent"
  /\ HydrateReturn(r, k, createDefaultState)
  /\ hydFailed' = TRUE

\* the requests sent while the fan-out is observed
FanOps == {JoinOp("A", "w"), LeaveOp("A"), ConfirmOp("A")}

\* the record a store call run without interference writes (Nil: no write)
Committed(o) ==
  IF o = ClearOp THEN createDefaultState
  ELSE LET a == Attempt(o, Stored, now) IN IF a.success THEN a.state ELSE Nil

\* the admin requests sent to this process: a kick of a name in use and a
\* kick of a name nobody uses
FanKicks == {KickOp("ann"), KickOp("zed")}

\* POST handler, the condition under which it calls onMutationSuccess with the
\* record the store call returned: `result.success && result.state`, and
\* `result.found && result.state` for kickPlayer
Notifies(o) ==
  o.kind = "kickPlayerByName" => Attempt(o, Stored, now).found

\* POST /api/game in this process: the store call writes the record. (A
\* request that fails changes nothing here and is left out.)
PostCommit ==
  /\ post.pc = "idle"
  /\ calls < CallCap
  /\ \E o \in FanOps \cup {ClearOp} \cup FanKicks :
       /\ Committed(o) # Nil
       /\ redisValue' = Committed(o)
       /\ post' = IF Notifies(o) THEN [pc |-> "committed", state |-> Committed(o)] ELSE post
  /\ calls' = calls + 1
  /\ UNCHANGED <<now, callVars, pollVars, cachedState, isHydrated, sseClients, closed, channel, conn,
                 hyd, hydrateReads, applied, hydFailed>>

\* updateCache
updateCache(newState) ==
  /\ cachedState' = newState
  /\ isHydrated' = TRUE

\* variant: observers whose send fails stay in the registry
broadcastVersionChange_KeepsFailed(version) ==
  /\ sseClients' = sseClients
  /\ channel' = [o \in Observers |->
                   IF o \in sseClients /\ o \notin closed
                     THEN Append(channel[o], UpdateMsg(version)) ELSE channel[o]]

\* broadcastVersionChange: one update notice per registered client; the
\* clients whose enqueue throws are deleted from the registry
broadcastVersionChange(version) ==
  /\ sseClients' = sseClients \ closed
  /\ channel' = [o \in Observers |->
                   IF o \in sseClients /\ o \notin closed
                     THEN Append(channel[o], UpdateMsg(version)) ELSE channel[o]]

\* the store call returns its result to the POST handler: onMutationSuccess
PostNotify ==
  /\ post.pc = "committed"
  /\ updateCache(post.state)
  /\ broadcastVersionChange(post.state.version)
  /\ post' = [pc |-> "idle", state |-> Nil]
  /\ applied' = IF post.state.version > applied THEN post.state.version ELSE applied
  /\ hydFailed' = FALSE
  /\ UNCHANGED <<redisValue, now, calls, callVars, pollVars, closed, conn, hyd, hydrateReads>>

\* a store call of another server process writes the record
RemoteCommit ==
  /\ calls < CallCap
  /\ \E o \in FanOps \cup {ClearOp} :
       /\ Committed(o) # Nil
       /\ redisValue' = Committed(o)
       /\ toPublish' = IF track = "probe" THEN toPublish \cup {Committed(o).version}
                        ELSE toPublish
  /\ calls' = calls + 1
  /\ UNCHANGED <<now, callVars, fanVars, published, lastSentVersion, poll, stream>>

\* the stream of observer o stops accepting data (the client is gone)
Close(o) ==
  /\ conn[o] \in {"hydrating", "live"}
  /\ o \notin closed
  /\ closed' = closed \cup {o}
  /\ UNCHANGED <<redisValue, now, calls, callVars, pollVars, cachedState, isHydrated, sseClients,
                 channel, conn, hyd, post, hydrateReads, applied, hydFailed>>

\* stream GET, abort listener (added after the initial event): isActive =
\* false, both intervals cleared, unregisterSSEClient
Abort(o) ==
  /\ conn[o] = "live"
  /\ stream[o].how # "abort"
  /\ conn' = [conn EXCEPT ![o] = "ended"]
  /\ sseClients' = sseClients \ {o}
  /\ SetStream(o, [how |-> "abort", timers |-> stream[o].timers \ {"heartbeat", "poll"}])
  /\ UNCHANGED <<redisValue, now, calls, callVars, published, toPublish, lastSentVersion, poll,
                 cachedState, isHydrated, closed, channel, hyd, post, hydrateReads, applied, hydFailed>>

\* the client aborts the request while start() still awaits the initial cache
\* reads: the abort event is dispatched before any listener has been added
AbortEarly(o) ==
  /\ conn[o] = "hydrating"
  /\ stream[o].how = "none"
  /\ SetStream(o, [stream[o] EXCEPT !.how = "abort"])
  /\ UNCHANGED <<redisValue, now, calls, callVars, fanVars, published, toPublish,
                 lastSentVersion, poll>>

\* the end of a channel is attributed to the first of abort, cancel, timeout
EndedBy(o, how) == IF stream[o].how = "none" THEN how ELSE stream[o].how

\* stream GET, cancel(): isActive = false, unregisterSSEClient
Cancel(o) ==
  /\ conn[o] \in {"hydrating", "live"}
  /\ conn' = [conn EXCEPT ![o] = "ended"]
  /\ sseClients' = sseClients \ {o}
  /\ SetStream(o, [stream[o] EXCEPT !.how = EndedBy(o, "cancel")])
  /\ UNCHANGED <<redisValue, now, calls, callVars, published, toPublish, lastSentVersion, poll,
                 cachedState, isHydrated, closed, channel, hyd, post, hydrateReads, applied, hydFailed>>

\* stream GET, the 55 s setTimeout: isActive = false, both intervals cleared,
\* unregisterSSEClient, controller.close()
Timeout(o) ==
  /\ "timeout" \in stream[o].timers
  /\ conn' = [conn EXCEPT ![o] = "ended"]
  /\ sseClients' = sseClients \ {o}
  /\ closed' = closed \cup {o}
  /\ SetStream(o, [how |-> EndedBy(o, "timeout"), timers |-> {}])
  /\ UNCHANGED <<redisValue, now, calls, callVars, published, toPublish, lastSentVersion, poll,
                 cachedState, isHydrated, channel, hyd, post, hydrateReads, applied, hydFailed>>

\* the comment line a heartbeat enqueues
HeartbeatMsg == [type |-> "heartbeat", version |-> 0]

\* stream GET, heartbeat callback: an inactive handler clears the interval;
\* an active one enqueues the comment, and a throwing controller makes the
\* handler inactive (the registry is not touched)
Heartbeat(o) ==
  /\ "heartbeat" \in stream[o].timers
  /\ IF conn[o] # "live"
       THEN /\ SetStream(o, [stream[o] EXCEPT !.timers = @ \ {"heartbeat"}])
            /\ UNCHANGED <<conn, channel>>
       ELSE IF o \in closed
         THEN /\ conn' = [conn EXCEPT ![o] = "ended"]
              /\ UNCHANGED <<channel, stream>>
         ELSE /\ Len(channel[o]) < MaxChannel
              /\ channel' = [channel EXCEPT ![o] = Append(@, HeartbeatMsg)]
              /\ UNCHANGED <<conn, stream>>
  /\ UNCHANGED <<redisValue, now, calls, callVars, published, toPublish, lastSentVersion, poll,
                 cachedState, isHydrated, sseClients, closed, hyd, post, hydrateReads, applied, hydFailed>>

\* stream GET, poll callback of an inactive handler: clears the interval
PollStop(o) ==
  /\ "poll" \in stream[o].timers
  /\ conn[o] # "live"
  /\ SetStream(o, [stream[o] EXCEPT !.timers = @ \ {"poll"}])
  /\ UNCHANGED <<redisValue, now, calls, callVars, fanVars, published, toPublish,
                 lastSentVersion, poll>>

FanInit == InitWith("fanout")

FanNext ==
  \/ \E o \in Observers : Connect(o)
  \/ \E g \in Getters : Get(g)
  \/ \E r \in Readers, k \in 1..3 : HydrateServe(r, k)
  \/ \E r \in Readers, k \in 1..3 : HydrateDone(r, k)
  \/ PostCommit
  \/ PostNotify
  \/ RemoteCommit
  \/ \E o \in Observers : Close(o)
  \/ \E o \in Observers : Abort(o)
  \/ \E o \in Observers : Cancel(o)

SpecFanout == FanInit /\ [][FanNext]_vars

\* ------------------------------------------ failing store reads (one process)
FailInit == InitWith("failure")

FailNext ==
  \/ Connect("o1")
  \/ Get("g1")
  \/ \E r \in {"o1", "g1"}, k \in 1..3 : HydrateServe(r, k)
  \/ \E r \in {"o1", "g1"}, k \in 1..3 : HydrateDone(r, k)
  \/ \E r \in {"o1", "g1"}, k \in 1..3 : HydrateFail(r, k)
  \/ PostCommit
  \/ PostNotify
  \/ RemoteCommit
  \/ GetStateFail("p1")
  \/ Return("p1")

SpecFailure == FailInit /\ [][FailNext]_vars

\* ---------------------------------------- the ends of a stream (one process)
CleanupInit == InitWith("cleanup")

CleanupNext ==
  \/ Connect("o1")
  \/ \E k \in 1..3 : HydrateServe("o1", k)
  \/ \E k \in 1..3 : HydrateDone("o1", k)
  \/ PostCommit
  \/ PostNotify
  \/ Close("o1")
  \/ Abort("o1")
  \/ AbortEarly("o1")
  \/ Cancel("o1")
  \/ Timeout("o1")
  \/ Heartbeat("o1")
  \/ PollStop("o1")

SpecCleanup == CleanupInit /\ [][CleanupNext]_vars

\* ----------------------------- cross-instance version probe (one process)
\* pubsub.ts, checkForNewerVersion: the published version when it is there and
\* differs from the caller's, else null
checkForNewerVersion(currentVersion) ==
  IF published # Nil /\ published.version # currentVersion THEN published ELSE Nil

\* stateManager, checkCrossInstanceUpdate: the version probe of the poll
checkCrossInstanceUpdate(lastSent) == checkForNewerVersion(lastSent)

\* a process that has written the record publishes the version it wrote
\* (publishVersionUpdate: redis.set of VERSION_KEY, a command of its own)
Publish ==
  /\ \E v \in toPublish :
       /\ published' = [version |-> v]
       /\ toPublish' = toPublish \ {v}
  /\ UNCHANGED <<redisValue, now, calls, callVars, fanVars, lastSentVersion, poll, stream>>

\* stream GET, pollInterval callback of a stream whose initial event has been
\* sent: the probe finds a version other than lastSentVersion, forceHydrate
\* clears the flag and hydrateFromRedis issues its get. (A probe that finds
\* nothing changes nothing.)
PollProbe(o) ==
  LET n == checkCrossInstanceUpdate(lastSentVersion[o]) IN
  /\ conn[o] = "live"
  /\ poll[o].pc = "idle"
  /\ n # Nil
  /\ poll' = [poll EXCEPT ![o] = [pc |-> "sent", newer |-> n.version, val |-> Nil]]
  /\ isHydrated' = FALSE
  /\ hydFailed' = FALSE
  /\ hydrateReads' = hydrateReads + 1
  /\ UNCHANGED <<redisValue, now, calls, callVars, cachedState, sseClients, closed, channel,
                 conn, hyd, post, published, toPublish, lastSentVersion, applied, stream>>

\* Redis answers the get of the forced hydration
PollServe(o) ==
  /\ poll[o].pc = "sent"
  /\ poll' = [poll EXCEPT ![o] = [@ EXCEPT !.pc = "served", !.val = redisValue]]
  /\ UNCHANGED <<redisValue, now, calls, callVars, fanVars, published, toPublish,
                 lastSentVersion, stream>>

\* the forced hydration returns: the record read replaces the cache, the
\* callback records the version it probed and sends the update notice
PollDone(o) ==
  /\ poll[o].pc = "served"
  /\ cachedState' = StoredOf(poll[o].val)
  /\ isHydrated' = TRUE
  /\ lastSentVersion' = [lastSentVersion EXCEPT ![o] = poll[o].newer]
  /\ sendEvent(o, UpdateMsg(poll[o].newer), conn[o] = "live")
  /\ poll' = [poll EXCEPT ![o] = NoPoll]
  /\ UNCHANGED <<redisValue, now, calls, callVars, sseClients, closed, conn, hyd, post,
                 hydrateReads, published, toPublish, applied, hydFailed, stream>>

ProbeInit == InitWith("probe")

\* one observer connected to this process, every write made elsewhere
ProbeNext ==
  \/ Connect("o1")
  \/ \E k \in 1..3 : HydrateServe("o1", k)
  \/ \E k \in 1..3 : HydrateDone("o1", k)
  \/ RemoteCommit
  \/ Publish
  \/ PollProbe("o1")
  \/ PollServe("o1")
  \/ PollDone("o1")

\* Redis answers every command, every writer gets to publish, and the poll
\* timer of a live stream keeps firing
ProbeFairness ==
  /\ WF_vars(\E k \in 1..3 : HydrateServe("o1", k))
  /\ WF_vars(\E k \in 1..3 : HydrateDone("o1", k))
  /\ WF_vars(Publish)
  /\ WF_vars(PollProbe("o1"))
  /\ WF_vars(PollServe("o1"))
  /\ WF_vars(PollDone("o1"))

SpecProbe == ProbeInit /\ [][ProbeNext]_vars /\ ProbeFairness

\* ------------------------------------- in-memory fallback store, side by side
\* InMemoryStore.getState: lazy expiry in place on this.state
MemGetState(s, t) == checkAndExpireTurnsInline(s, t).state

\* One call of InMemoryStore on record s at time t: the record it leaves in
\* this.state and what it returns. joinQueue, leaveQueue, confirmReady and
\* makeMove repeat the statements of the Redis modifiers on the record
\* getState returned and raise the version when they succeed; resetGame
\* works on this.state without getState; kickPlayerByName raises the version
\* only when it found somebody; getState raises no version.
MemCall(o, s, t) ==
  LET e == MemGetState(s, t) IN
  CASE o.kind \in {"join", "leave", "confirmReady", "makeMove"} ->
         LET r == Modifier(o, e, t) IN
         [state |-> IF r.success THEN [r.state EXCEPT !.version = @ + 1] ELSE e,
          ret |-> [success |-> r.success, error |-> r.error],
          found |-> FALSE, out |-> createDefaultState]
    [] o.kind = "resetGame" ->
         [state |-> [ResetMod(s).state EXCEPT !.version = @ + 1],
          ret |-> [success |-> TRUE, error |-> ""],
          found |-> FALSE, out |-> createDefaultState]
    [] o.kind = "clearAllQueues" ->
         [state |-> createDefaultState,
          ret |-> [success |-> TRUE, error |-> ""],
          found |-> FALSE, out |-> createDefaultState]
    [] o.kind = "kickPlayerByName" ->
         LET r == KickMod(e, o.name, t) IN
         [state |-> IF r.found THEN [r.state EXCEPT !.version = @ + 1] ELSE r.state,
          ret |-> [success |-> TRUE, error |-> ""],
          found |-> r.found, out |-> createDefaultState]
    [] o.kind = "getState" ->
         [state |-> e, ret |-> [success |-> TRUE, error |-> ""],
          found |-> FALSE, out |-> e]

\* One call of RedisStore with no other call in progress: the value it leaves
\* under REDIS_KEY and what it returns (updateState, clearAllQueues and
\* getStateWithExpiration from their first get to their return)
RedisCall(o) ==
  CASE o.kind = "clearAllQueues" ->
         [value |-> createDefaultState, ret |-> [success |-> TRUE, error |-> ""],
          found |-> FALSE, out |-> createDefaultState]
    [] o.kind = "getState" ->
         IF redisValue = Nil
           THEN [value |-> redisValue, ret |-> [success |-> TRUE, error |-> ""],
                 found |-> FALSE, out |-> createDefaultState]
           ELSE LET e == checkAndExpireTurnsInline(redisValue, now)
                    n == IF e.changed THEN [e.state EXCEPT !.version = @ + 1] ELSE e.state
                IN [value |-> IF e.changed THEN n ELSE redisValue,
                    ret |-> [success |-> TRUE, error |-> ""],
                    found |-> FALSE, out |-> n]
    [] OTHER ->
         LET a == Attempt(o, Stored, now) IN
         [value |-> IF a.success THEN a.state ELSE redisValue,
          ret |-> IF a.success THEN [success |-> TRUE, error |-> ""]
                               ELSE [success |-> FALSE, error |-> a.error],
          found |-> a.found, out |-> createDefaultState]

\* the requests sent to both stores
EquivOps ==
  {JoinOp(i, c) : i \in {"A", "B"}, c \in Colors}
    \cup {LeaveOp(i) : i \in {"A", "B"}}
    \cup {ConfirmOp(i) : i \in {"A", "B"}}
    \cup {MoveOp(i, mv) : i \in {"A", "B"}, mv \in MoveRequests}
    \cup {ResetOp, ClearOp, ReadOp, KickOp("ann"), KickOp("bob"), KickOp("zed")}

\* the same request is served by the Redis store and by the in-memory store
\* at the same clock reading
BothStores(o) ==
  /\ calls < CallCap
  /\ calls' = calls + 1
  /\ \E r \in {RedisCall(o)} :
       /\ redisValue' = r.value
       /\ ret' = [ret EXCEPT !["p1"] = r.ret]
       /\ found' = [found EXCEPT !["p1"] = r.found]
       /\ st' = [st EXCEPT !["p1"] = r.out]
  /\ op' = [op EXCEPT !["p1"] = o]
  /\ mem' = MemCall(o, mem.state, now)
  /\ UNCHANGED <<now, pc, origV, attempt, firstV, at, lin, track, joinSeq, seatSeq, disturbed,
                 rejoin, fanVars, pollVars>>

EquivInit == InitWith("equiv")

EquivNext ==
  \/ \E o \in EquivOps : BothStores(o)
  \/ Tick

SpecEquiv == EquivInit /\ [][EquivNext]_vars

\* ------------------------------------------------------------------ claims
CountIn(q, i) == Cardinality({k \in 1..Len(q) : q[k].id = i})
SeatCount(s, i) == Cardinality({c \in Colors : s.current[c] # Nil /\ s.current[c].id = i})
Occurrences(s, i) == SeatCount(s, i) + CountIn(s.queues["w"], i) + CountIn(s.queues["b"], i)
IsUpdate(o) == o.kind \in {"join", "leave", "confirmReady", "makeMove", "resetGame", "kickPlayerByName"}

\* C1: in every reachable state no player id appears more than once across
\* the white queue, the black queue and the two seats.
C1_UniquePlayer == \A i \in PlayerIds : Occurrences(Stored, i) <= 1

\* C2: the stored record always equals the result of applying the committed
\* mutations one after another (in the order of their writes); no mutation
\* that reported success is lost.
C2_Linearizable == Stored = lin

\* C3: two concurrent mutating calls that started from the same version and
\* both reported success leave the stored version exactly 2 above it.
C3_TwoCommitsTwoVersions ==
  \A p, q \in Procs :
    (/\ p # q
     /\ pc[p] = "done" /\ pc[q] = "done"
     /\ IsUpdate(op[p]) /\ IsUpdate(op[q])
     /\ ret[p].success /\ ret[q].success
     /\ firstV[p] = firstV[q])
    => Stored.version = firstV[p] + 2

\* C4: every change of the stored record raises its version by exactly 1
\* (so the version never decreases).
C4_VersionStep ==
  [][StoredOf(redisValue') # Stored => StoredOf(redisValue').version = Stored.version + 1]_vars

\* C5: two reads that return the same version return the same record.
C5_VersionIdentifiesSnapshot ==
  \A p, q \in Procs :
    (/\ pc[p] = "done" /\ pc[q] = "done"
     /\ op[p].kind = "getState" /\ op[q].kind = "getState"
     /\ st[p].version = st[q].version)
    => st[p] = st[q]

\* C6: every write to the stored record is the write of an updateState
\* attempt whose observed version is still the stored version.
C6_ConditionalWrite ==
  [][StoredOf(redisValue') # Stored =>
       \E p \in Procs : /\ pc[p] = "checked" /\ pc'[p] = "done"
                        /\ origV[p] = Stored.version]_vars

\* C7: a color that has a turn state has a seated player.
C7_TurnImpliesSeat ==
  \A c \in Colors : Stored.turns[c] # Nil => Stored.current[c] # Nil

C7_Witness ==
  /\ Stored.version >= 3
  /\ \E c \in Colors : Stored.turns[c] # Nil /\ Stored.current[c] # Nil
  /\ \E c \in Colors : Stored.turns[c] = Nil /\ Stored.current[c] = Nil

\* C8: a color that has a turn state is the side to move (so the two colors
\* never both have one).
C8_TurnOnlyForSideToMove ==
  \A c \in Colors : Stored.turns[c] # Nil => getTurnFromFen(Stored.game.fen) = c

IsPrefix(a, b) == Len(a) <= Len(b) /\ \A k \in 1..Len(a) : a[k] = b[k]

\* C9: with no leave, kick, clearAll or timeout, the players of a color are
\* first seated in the order in which their joins committed.
C9_Fifo ==
  ~disturbed => \A c \in Colors : IsPrefix(seatSeq[c], joinSeq[c])

C9_Witness ==
  /\ ~disturbed
  /\ \E c \in Colors : Len(seatSeq[c]) >= 2 /\ Len(joinSeq[c]) >= 3

\* the seated player of the side to move has run out of time at t
Expiring(s, t) ==
  LET c == getTurnFromFen(s.game.fen) IN
  s.current[c] # Nil /\ s.turns[c] # Nil /\ t > s.turns[c].deadline

\* process p takes the first step of a store call that reads the record
Reads(p) == pc[p] \in {"idle", "retry"} /\ pc'[p] \notin {"idle", "retry"}
            /\ op'[p].kind # "clearAllQueues"

BusinessErrors ==
  {"Not your turn", "No confirmation needed", "Confirmation timeout",
   "Please confirm you are ready first", "Move timeout - you took too long",
   "Invalid move", "Already in queue", "Already playing"}

\* process p ends a store call in this step
Ends(p) == pc[p] # "done" /\ pc'[p] = "done"

\* C11: a call whose modifier reports a business failure returns that failure
\* in the very step that read the record (no second read, no further
\* attempt), and that step leaves the stored value untouched.
C11_FailureWritesNothing ==
  [][\A p \in Procs :
       (Ends(p) /\ IsUpdate(op'[p]) /\ ret'[p].error \in BusinessErrors) =>
         /\ pc[p] \in {"idle", "retry"}
         /\ ~ret'[p].success
         /\ ret'[p].error = Modifier(op'[p], checkAndExpireTurnsInline(Stored, now).state, now).error
         /\ attempt'[p] = (IF pc[p] = "idle" THEN 0 ELSE attempt[p])
         /\ redisValue' = redisValue]_vars

\* a failure returned by the second attempt of a call, on a non-empty record
C11_Witness ==
  \E p \in Procs :
    /\ pc[p] = "done"
    /\ ret[p].error \in BusinessErrors
    /\ attempt[p] = 1
    /\ redisValue # Nil
    /\ Stored.version >= 1

ConcurrentModification == "Concurrent modification - please retry"

\* C12: a call makes at most 3 attempts; every attempt after a conflict works
\* on the record as stored at that moment; a call writes only in its last
\* step and then reports success; a call that reports Concurrent modification
\* does so at the version comparison of its third attempt, without a write.
C12_BoundedRetry ==
  [][\A p \in Procs :
       /\ attempt'[p] < 3
       /\ (pc[p] = "retry" /\ pc'[p] # "retry") =>
            LET a == Attempt(op[p], Stored, now) IN
            /\ origV'[p] = a.originalVersion
            /\ st'[p] = a.state
            /\ attempt'[p] = attempt[p]
       /\ (pc[p] = "modified" /\ pc'[p] = "retry") =>
            /\ Stored.version # origV[p]
            /\ attempt'[p] = attempt[p] + 1
            /\ redisValue' = redisValue
       /\ (IsUpdate(op[p]) /\ pc'[p] # pc[p] /\ redisValue' # redisValue) =>
            pc'[p] = "done" /\ ret'[p].success
       /\ (Ends(p) /\ ret'[p].error = ConcurrentModification) =>
            /\ pc[p] = "modified"
            /\ attempt[p] = 2
            /\ Stored.version # origV[p]
            /\ redisValue' = redisValue]_vars

\* a call has given up after three conflicts
C12_Witness ==
  \E p \in Procs :
    /\ pc[p] = "done"
    /\ IsUpdate(op[p])
    /\ ret[p].error = ConcurrentModification
    /\ attempt[p] = 2
    /\ Stored.version = firstV[p] + 3

\* C13: leave(id) applied to the result of leave(id) changes nothing, at any
\* later time: on every record written and for every id, and for the record
\* every leave call goes on to write; a leave call for a player who is not in
\* the record it read leaves that record as it is, with the version raised
\* by one.
C13_LeaveIdempotent ==
  [][/\ redisValue' # redisValue =>
          \A i \in PlayerIds :
            \E r \in {LeaveMod(redisValue', i, now).state} :
              /\ \A t \in {now, now + TickMs} : LeaveMod(r, i, t).state = r
              /\ Occurrences(r, i) = 0
     /\ \A p \in Procs : (Reads(p) /\ op'[p].kind = "leave") =>
          LET e == checkAndExpireTurnsInline(Stored, now).state
              i == op'[p].player IN
          /\ pc'[p] = "modified"
          /\ \A t \in {now, now + TickMs} : LeaveMod(st'[p], i, t).state = st'[p]
          /\ Occurrences(st'[p], i) = 0
          /\ Occurrences(e, i) = 0 => st'[p] = [e EXCEPT !.version = @ + 1]]_vars

\* a leave call is about to vacate the seat of a player with a successor waiting
C13_Witness ==
  /\ pc["p1"] = "checked"
  /\ op["p1"].kind = "leave"
  /\ \E c \in Colors :
       /\ Stored.current[c] # Nil
       /\ Stored.current[c].id = op["p1"].player
       /\ Len(Stored.queues[c]) > 0
       /\ st["p1"].current[c] = Head(Stored.queues[c])

\* C14: once a leave call has returned (leaveQueue resolves and the route
\* answers success), the stored record does not contain the player, unless a
\* join of that player overlapped the call or came after it.
C14_LeaveRemoves ==
  \A p \in Procs :
    (pc[p] = "done" /\ op[p].kind = "leave" /\ ~rejoin[p]) =>
      Occurrences(Stored, op[p].player) = 0

\* C15: a confirmReady of the seated player of the side to move, read after
\* the deadline of a pending confirmation, returns Confirmation timeout; a
\* makeMove of the confirmed seated player, read after the move deadline,
\* returns Move timeout.
C15_ExpiryErrorKinds ==
  [][\A p \in Procs : Reads(p) =>
       LET c == getTurnFromFen(Stored.game.fen)
           o == op'[p]
           late == /\ Expiring(Stored, now)
                   /\ Stored.current[c].id = o.player
       IN /\ (late /\ o.kind = "confirmReady"
                /\ Stored.turns[c].status = "pending_confirmation") =>
               ret'[p] = [success |-> FALSE, error |-> "Confirmation timeout"]
          /\ (late /\ o.kind = "makeMove" /\ Stored.turns[c].status = "confirmed") =>
               ret'[p] = [success |-> FALSE, error |-> "Move timeout - you took too long"]]_vars

\* the record holds nobody, or nobody but player i in the white seat
Alone(s, i) ==
  /\ s.queues = [c \in Colors |-> <<>>]
  /\ s.current["b"] = Nil
  /\ s.current["w"] \in {Nil, Player(i)}

\* The scenario, step by step, for a call of process p that reads the stored
\* record at the start position; seatAfter is the white seat after the move.
ScenarioStep(p, seatAfter) ==
  LET o == op'[p]
      n == st'[p]
      fresh == Stored.game = createDefaultState.game /\ Alone(Stored, "A")
  IN (Reads(p) /\ fresh) =>
       /\ (o = JoinOp("A", "w") /\ Stored.current["w"] = Nil) =>
             /\ pc'[p] = "modified"
             /\ n.current["w"] = Player("A")
             /\ n.turns["w"] = Pending(now)
             /\ n.queues["w"] = <<>>
       /\ (o = ConfirmOp("A") /\ Stored.current["w"] = Player("A")
             /\ Stored.turns["w"] # Nil
             /\ Stored.turns["w"].status = "pending_confirmation"
             /\ now <= Stored.turns["w"].deadline) =>
             /\ pc'[p] = "modified"
             /\ n.current["w"] = Player("A")
             /\ n.turns["w"] = Confirmed(now)
       /\ (o = MoveOp("A", "e2e4") /\ Stored.current["w"] = Player("A")
             /\ Stored.turns["w"] # Nil
             /\ Stored.turns["w"].status = "confirmed"
             /\ now <= Stored.turns["w"].deadline) =>
             /\ pc'[p] = "modified"
             /\ n.queues["w"] = <<>>
             /\ n.current["w"] = seatAfter
             /\ n.turns["w"] = Nil
             /\ n.game.moveHistory = <<"e4">>
             /\ getTurnFromFen(n.game.fen) = "b"
             /\ n.current["b"] = Nil /\ n.turns["b"] = Nil

\* C16 as stated: after A's move the white seat is empty.
C16_SinglePlayer_SeatEmpty ==
  [][\A p \in Procs : ScenarioStep(p, Nil)]_vars

\* C16: alone in the game, A joins white and holds the white seat with a
\* pending confirmation; A confirms and the status is confirmed; A moves e2e4
\* and the white queue is empty, A holds the white seat again without a turn
\* state, the move history is <<"e4">> and black is to move.
C16_SinglePlayer ==
  [][\A p \in Procs : ScenarioStep(p, Player("A"))]_vars

\* the scenario has run from the absent record: join, confirm, move
C16_Witness ==
  /\ pc["p1"] = "done"
  /\ op["p1"] = MoveOp("A", "e2e4")
  /\ ret["p1"].success
  /\ Stored.version = 3
  /\ Alone(Stored, "A")
  /\ Stored.current["w"] = Player("A")
  /\ Stored.turns = [c \in Colors |-> Nil]
  /\ Stored.game.moveHistory = <<"e4">>
  /\ Stored.game.fen = [turn |-> "b", ply |-> 1]

\* C17: the process issues at most one store read for hydration (no forced
\* re-hydration takes place in these runs).
C17_HydrateOnce == hydrateReads <= 1

\* C18: the versions of the messages on an observer's channel never go down.
C18_VersionsNonDecreasing ==
  \A o \in Observers : \A j, k \in 1..Len(channel[o]) :
    j < k => channel[o][j].version <= channel[o][k].version

IsUpdateMsg(m) == DOMAIN m = {"type", "version"} /\ m.type = "update"
IsInitialMsg(m) == DOMAIN m = {"game", "queue", "version"}

\* C19: the first message on an observer's channel is the derived view with
\* its version, every later one an update notice.
C19_InitialFirst ==
  \A o \in Observers : \A k \in 1..Len(channel[o]) :
    IF k = 1 THEN IsInitialMsg(channel[o][k]) ELSE IsUpdateMsg(channel[o][k])

\* the step in which the POST handler runs onMutationSuccess
Broadcasts == post.pc = "committed" /\ post'.pc = "idle"

\* C20: a broadcast of version v enqueues exactly one {type: update, version: v}
\* on the channel of every registered observer whose stream accepts it and
\* keeps that observer registered; it removes every registered observer whose
\* stream throws and enqueues nothing there; observers that are not
\* registered get nothing and stay out.
C20_Broadcast ==
  [][Broadcasts =>
       LET v == post.state.version IN
       \A o \in Observers :
         /\ (o \in sseClients /\ o \notin closed) =>
               /\ channel'[o] = Append(channel[o], [type |-> "update", version |-> v])
               /\ o \in sseClients'
         /\ (o \in sseClients /\ o \in closed) =>
               /\ channel'[o] = channel[o]
               /\ o \notin sseClients'
         /\ o \notin sseClients =>
               /\ channel'[o] = channel[o]
               /\ o \notin sseClients']_vars

\* a broadcast has reached one observer and pruned another whose stream had
\* stopped accepting data without the abort listener having run
C20_Witness ==
  /\ post.pc = "idle"
  /\ \E o, x \in Observers :
       /\ o \in sseClients /\ o \notin closed
       /\ Len(channel[o]) >= 2
       /\ IsUpdateMsg(channel[o][Len(channel[o])])
       /\ channel[o][Len(channel[o])].version = CacheValue.version
       /\ x \in closed /\ x \notin sseClients /\ conn[x] \in {"hydrating", "live"}

\* C21: every store write made by a request of this process leaves the POST
\* handler holding the written record for onMutationSuccess, and the step
\* that follows in the handler puts that record in the cache and sends its
\* version to the registered observers.
C21_MutationNotifies ==
  [][/\ PostCommit => (post'.pc = "committed" /\ post'.state = redisValue')
     /\ Broadcasts =>
          /\ cachedState' = post.state
          /\ isHydrated'
          /\ \A o \in sseClients \ closed :
                channel'[o] = Append(channel[o], UpdateMsg(post.state.version))]_vars

\* observer o has been sent a message that carries version v or a later one
Notified(o, v) == \E k \in 1..Len(channel[o]) : channel[o][k].version >= v

\* C22: whenever the stored record has version v, written by another process,
\* and this process has a connected observer, then eventually the cache of
\* this process holds a record of version >= v and the observer has been sent
\* a version >= v.
C22_Propagation ==
  \A v \in 1..ProbeMaxCalls :
    (Stored.version = v /\ conn["o1"] = "live")
      ~> (CacheValue.version >= v /\ Notified("o1", v))

\* C23: the record a resetGame call goes on to write has the game at the
\* start position with no last move and an empty history, the version raised
\* by one, and the queues and seats of the record it read.
C23_ResetFrame ==
  [][\A p \in Procs : (Reads(p) /\ op'[p].kind = "resetGame") =>
       /\ pc'[p] = "modified"
       /\ st'[p].game = [fen |-> StartFen, lastMove |-> Nil, moveHistory |-> <<>>]
       /\ st'[p].version = Stored.version + 1
       /\ st'[p].queues = Stored.queues
       /\ st'[p].current = Stored.current]_vars

\* record s holds a player with display name n in a queue or a seat
HasName(s, n) ==
  \E c \in Colors :
    \/ s.current[c] # Nil /\ s.current[c].name = n
    \/ \E k \in 1..Len(s.queues[c]) : s.queues[c][k].name = n

\* C24: a kickPlayerByName call that writes returns found exactly when the
\* record it replaces holds a player of that name (the write leaves none), and
\* a call that ends without a write returns not-found.
C24_KickReport ==
  [][\A p \in Procs : op[p].kind = "kickPlayerByName" =>
       /\ (pc[p] = "checked" /\ pc'[p] = "done") =>
             /\ ~HasName(redisValue', op[p].name)
             /\ found'[p] <=> HasName(Stored, op[p].name)
       /\ (Ends(p) /\ ~ret'[p].success) => ~found'[p]]_vars

\* the player ids a request can carry in the player-id header ("-": none)
Viewers == PlayerIds \cup {"-"}

\* entry y of the queue view served to viewer v stands for the stored player x
Anonymised(x, y, v) ==
  IF x.id = v
    THEN y = x
    ELSE /\ y = [x EXCEPT !.id = toPublicPlayerId(x.id)]
         /\ y.id \notin PlayerIds
         /\ \A u \in Viewers \ {x.id} : toPublicPlayer(x, u) = y

\* C25: in the queue view of the stored record served to any viewer, the
\* entry of the viewer is the stored one; every other entry differs from the
\* stored one only in its id, which is a token fixed by the real id (the same
\* for every other viewer) and is nobody's real id; the view has an entry for
\* every stored player and no other, and the turn states as stored.
C25_Anonymised ==
  \A v \in Viewers :
    \E q \in {toPublicQueueState(deriveQueueState(Stored), v)} :
      /\ q.turns = Stored.turns
      /\ \A c \in Colors :
            /\ Len(q.queues[c]) = Len(Stored.queues[c])
            /\ \A k \in 1..Len(Stored.queues[c]) :
                  Anonymised(Stored.queues[c][k], q.queues[c][k], v)
            /\ IF Stored.current[c] = Nil THEN q.current[c] = Nil
                 ELSE Anonymised(Stored.current[c], q.current[c], v)

\* a record with the viewer seated and somebody else waiting behind
C25_Witness ==
  /\ Stored.current["w"] = Player("A")
  /\ Len(Stored.queues["w"]) > 0
  /\ Stored.current["b"] # Nil
  /\ LET q == toPublicQueueState(deriveQueueState(Stored), "A") IN
     /\ q.current["w"].id = "A"
     /\ q.queues["w"][1].id = toPublicPlayerId(Stored.queues["w"][1].id)
     /\ q.current["b"].id \notin PlayerIds

\* player i may move mv on record s at time t: i holds the seat of the side to
\* move, that seat is confirmed, its deadline has not passed and chess.js
\* accepts the move
MayMove(s, i, mv, t) ==
  LET c == getTurnFromFen(s.game.fen) IN
  /\ s.current[c] # Nil /\ s.current[c].id = i
  /\ s.turns[c] # Nil /\ s.turns[c].status = "confirmed"
  /\ t <= s.turns[c].deadline
  /\ ChessMove(s.game.fen, mv) # Nil

\* C26: a step that changes the game part of the stored record is the write
\* of a makeMove, resetGame or clearAllQueues call; for a makeMove the caller
\* may move on the record the write replaces, at the time the call read the
\* clock, and the new position is the one chess.js gives for that move.
C26_MoveGuard ==
  [][StoredOf(redisValue').game # Stored.game =>
       \E p \in Procs :
         /\ pc[p] # "done" /\ pc'[p] = "done"
         /\ op'[p].kind \in {"makeMove", "resetGame", "clearAllQueues"}
         /\ op'[p].kind = "makeMove" =>
               /\ MayMove(Stored, op'[p].player, op'[p].mv, at[p])
               /\ StoredOf(redisValue').game.fen = ChessMove(Stored.game.fen, op'[p].mv).fen]_vars

\* player i holds the seat of the side to move on record s, confirmed, with
\* the deadline not passed at t
SeatedConfirmed(s, i, t) ==
  LET c == getTurnFromFen(s.game.fen) IN
  /\ s.current[c] # Nil /\ s.current[c].id = i
  /\ s.turns[c] # Nil /\ s.turns[c].status = "confirmed"
  /\ t <= s.turns[c].deadline

\* C27: a makeMove call of the confirmed seated player of the side to move,
\* within the deadline, with a move chess.js rejects, ends in the step that
\* read the record with the error Invalid move; that step leaves the stored
\* value as it is (game, queues, seats, turn states, version), and a legal
\* move of the same player at that time would still be accepted.
C27_IllegalMove ==
  [][\A p \in Procs :
       (/\ Reads(p) /\ op'[p].kind = "makeMove"
        /\ SeatedConfirmed(Stored, op'[p].player, now)
        /\ ChessMove(Stored.game.fen, op'[p].mv) = Nil) =>
          /\ pc'[p] = "done"
          /\ ret'[p] = [success |-> FALSE, error |-> "Invalid move"]
          /\ redisValue' = redisValue
          /\ SeatedConfirmed(StoredOf(redisValue'), op'[p].player, now)
          /\ \E mv \in LegalMoves(Stored.game.fen) :
                LET a == Attempt(MoveOp(op'[p].player, mv), StoredOf(redisValue'), now) IN
                a.success /\ a.state.game.lastMove = mv]_vars

\* an Invalid move has been returned to the confirmed seated player, who
\* still holds the seat with the deadline ahead
C27_Witness ==
  /\ pc["p1"] = "done"
  /\ op["p1"].kind = "makeMove"
  /\ ret["p1"] = [success |-> FALSE, error |-> "Invalid move"]
  /\ SeatedConfirmed(Stored, op["p1"].player, now)
  /\ now > 0
  /\ Stored.game.fen.ply > 0

\* C28: when the confirmed seated player X of the side to move c makes a
\* legal move within the deadline while c's queue is q, the record the call
\* goes on to write has the head of q \o <<X>> in c's seat without a turn
\* state and the rest as c's queue; the other color keeps its queue and
\* seat, and its seated player, if there is one without a turn state, has
\* pending_confirmation with deadline now + CONFIRMATION_TIMEOUT_MS (a turn
\* state it already had is kept). A join that fills an empty seat gives it
\* that clock exactly when its color is the side to move.
C28_Rotation ==
  [][\A p \in Procs :
       /\ (/\ Reads(p) /\ op'[p].kind = "makeMove"
            /\ MayMove(Stored, op'[p].player, op'[p].mv, now)) =>
              LET c == getTurnFromFen(Stored.game.fen)
                  o == Other(c)
                  line == Stored.queues[c] \o <<Stored.current[c]>>
                  n == st'[p]
              IN /\ pc'[p] = "modified"
                 /\ getTurnFromFen(n.game.fen) = o
                 /\ n.current[c] = Head(line)
                 /\ n.turns[c] = Nil
                 /\ n.queues[c] = Tail(line)
                 /\ n.queues[o] = Stored.queues[o]
                 /\ n.current[o] = Stored.current[o]
                 /\ n.turns[o] = (IF Stored.current[o] # Nil /\ Stored.turns[o] = Nil
                                    THEN Pending(now) ELSE Stored.turns[o])
       /\ (/\ Reads(p) /\ op'[p].kind = "join" /\ pc'[p] = "modified"
            /\ checkAndExpireTurnsInline(Stored, now).state.current[op'[p].color] = Nil) =>
              LET c == op'[p].color
                  n == st'[p]
              IN /\ n.current[c] = Player(op'[p].player)
                 /\ n.turns[c] = (IF getTurnFromFen(Stored.game.fen) = c
                                    THEN Pending(now) ELSE Nil)]_vars

\* the scenario: C (confirmed) has moved while two players waited; the first
\* of them holds the seat on deck, C is last in the queue, and the seated
\* player of the other color has been given the confirmation clock
C28_Witness ==
  \E c \in Colors :
    /\ pc["p1"] = "done" /\ op["p1"].kind = "makeMove" /\ ret["p1"].success
    /\ Len(Stored.queues[c]) = 2
    /\ Stored.queues[c][2].id = op["p1"].player
    /\ Stored.current[c] # Nil
    /\ Stored.current[c].id \notin {op["p1"].player, Stored.queues[c][1].id}
    /\ Stored.turns[c] = Nil
    /\ getTurnFromFen(Stored.game.fen) = Other(c)
    /\ Stored.current[Other(c)] # Nil
    /\ Stored.turns[Other(c)] = Pending(now)

\* the ids in the queue and in the seat of color c, and how many entries hold them
ColorIds(s, c) ==
  {s.queues[c][k].id : k \in 1..Len(s.queues[c])}
    \cup (IF s.current[c] = Nil THEN {} ELSE {s.current[c].id})

ColorCount(s, c) == Len(s.queues[c]) + (IF s.current[c] = Nil THEN 0 ELSE 1)

\* C29: an accepted move keeps the players of the mover's color: the ids in
\* its queue and seat are the same set before and after, held by as many
\* entries as before and each id once; every player who was waiting is
\* afterwards either seated or ahead of the mover in the queue; the queue
\* and the seat of the other color are unchanged.
C29_MoveKeepsPlayers ==
  [][\A p \in Procs :
       (Reads(p) /\ op'[p].kind = "makeMove" /\ pc'[p] = "modified") =>
         LET c == getTurnFromFen(Stored.game.fen)
             o == Other(c)
             i == op'[p].player
             n == st'[p]
         IN /\ ColorIds(n, c) = ColorIds(Stored, c)
            /\ ColorCount(n, c) = ColorCount(Stored, c)
            /\ Cardinality(ColorIds(n, c)) = ColorCount(n, c)
            /\ \A k \in 1..Len(Stored.queues[c]) :
                 \/ n.current[c] = Stored.queues[c][k]
                 \/ \E a, b \in 1..Len(n.queues[c]) :
                      a < b /\ n.queues[c][a] = Stored.queues[c][k] /\ n.queues[c][b].id = i
            /\ n.queues[o] = Stored.queues[o]
            /\ n.current[o] = Stored.current[o]]_vars

\* a move has been accepted while one player waited behind the mover and
\* the other color had a seated player and a waiting one
C29_Witness ==
  \E c \in Colors :
    /\ pc["p1"] = "done" /\ op["p1"].kind = "makeMove" /\ ret["p1"].success
    /\ getTurnFromFen(Stored.game.fen) = Other(c)
    /\ Len(Stored.queues[c]) = 1
    /\ Stored.queues[c][1].id = op["p1"].player
    /\ Stored.current[c] # Nil /\ Stored.current[c].id # op["p1"].player
    /\ Stored.current[Other(c)] # Nil
    /\ Len(Stored.queues[Other(c)]) > 0

\* C30: joinQueue acts on the record it read, after the lazy expiry of a
\* timed-out seat. If the id is in the queue of the requested color the call
\* returns Already in queue, if it holds that color's seat it returns
\* Already playing, in both cases in the step that read the record and
\* without touching the stored value. Otherwise the record it goes on to
\* write has the player behind everybody who waited for that color, with
\* the head of that line moved into the seat if the seat was empty; the
\* queue and the seat of the other color are as they were.
C30_Join ==
  [][\A p \in Procs :
       (Reads(p) /\ op'[p].kind = "join") =>
         \E e \in {checkAndExpireTurnsInline(Stored, now).state} :
           LET c == op'[p].color
               o == Other(c)
               i == op'[p].player
               line == e.queues[c] \o <<Player(i)>>
               n == st'[p]
           IN IF InSeq(e.queues[c], i)
                THEN /\ pc'[p] = "done"
                     /\ ret'[p] = [success |-> FALSE, error |-> "Already in queue"]
                     /\ redisValue' = redisValue
              ELSE IF e.current[c] # Nil /\ e.current[c].id = i
                THEN /\ pc'[p] = "done"
                     /\ ret'[p] = [success |-> FALSE, error |-> "Already playing"]
                     /\ redisValue' = redisValue
              ELSE /\ pc'[p] = "modified"
                   /\ IF e.current[c] = Nil
                        THEN n.current[c] = Head(line) /\ n.queues[c] = Tail(line)
                        ELSE n.current[c] = e.current[c] /\ n.queues[c] = line
                   /\ n.queues[o] = e.queues[o]
                   /\ n.current[o] = e.current[o]
                   /\ n.game = e.game]_vars

\* a player who was appended behind another waiting player has asked for
\* the same color again and was told Already in queue; the record still has
\* the seat taken and the two players waiting in their order of arrival
C30_Witness ==
  \E c \in Colors :
    /\ pc["p1"] = "done" /\ op["p1"].kind = "join" /\ op["p1"].color = c
    /\ ret["p1"] = [success |-> FALSE, error |-> "Already in queue"]
    /\ Stored.current[c] # Nil
    /\ Len(Stored.queues[c]) = 2
    /\ Stored.queues[c][2].id = op["p1"].player
    /\ ~Expiring(Stored, now)

\* C31: the lazy expiry a call runs on the record it read leaves the queue,
\* the seat and the turn state of the color that is not to move as they
\* are, whatever the clock says; and when the seated player of the color to
\* move has no turn state, it keeps the seat and gets pending_confirmation
\* with deadline now + CONFIRMATION_TIMEOUT_MS. The record a read goes on to
\* return is the record after that expiry.
C31_OnlySideToMoveExpires ==
  [][\A p \in Procs :
       Reads(p) =>
         \E e \in {checkAndExpireTurnsInline(Stored, now)} :
           LET c == getTurnFromFen(Stored.game.fen)
               o == Other(c)
           IN /\ e.state.current[o] = Stored.current[o]
              /\ e.state.turns[o] = Stored.turns[o]
              /\ e.state.queues[o] = Stored.queues[o]
              /\ (Stored.current[c] # Nil /\ Stored.turns[c] = Nil) =>
                    /\ e.changed
                    /\ e.state.current[c] = Stored.current[c]
                    /\ e.state.queues[c] = Stored.queues[c]
                    /\ e.state.turns[c] = Pending(now)
              /\ (op'[p].kind = "getState" /\ redisValue # Nil) =>
                    [st'[p] EXCEPT !.version = 0] = [e.state EXCEPT !.version = 0]]_vars

\* a read has run the expiry on a record whose seated player of the color
\* not to move carries a deadline that has passed (left by a reset): that
\* player is still seated in the record the read is about to write back,
\* and the seated player of the color to move has received a fresh clock
C31_Witness ==
  \E c \in Colors :
    /\ pc["p1"] = "rdwrite" /\ op["p1"].kind = "getState"
    /\ getTurnFromFen(Stored.game.fen) = c
    /\ Stored.current[Other(c)] # Nil
    /\ Stored.turns[Other(c)] # Nil
    /\ now > Stored.turns[Other(c)].deadline
    /\ st["p1"].current[Other(c)] = Stored.current[Other(c)]
    /\ Stored.current[c] # Nil /\ Stored.turns[c] = Nil
    /\ st["p1"].turns[c] = Pending(now)

\* the record needs the lazy expiry at time t: the seated player of the
\* color to move has run out of time, or has no turn state
Stale(s, t) ==
  LET c == getTurnFromFen(s.game.fen) IN
  s.current[c] # Nil /\ (s.turns[c] = Nil \/ t > s.turns[c].deadline)

\* C32: when a read through the store, a join, a leave, a confirmReady or a
\* move reads a stored record that needs the lazy expiry, the call leaves the
\* store corrected: if it returns in that step the stored record no longer
\* needs the expiry, and otherwise the record it goes on to write does not.
C32_SelfHealing ==
  [][\A p \in Procs :
       (/\ Reads(p) /\ Stale(Stored, now)
        /\ op'[p].kind \in {"getState", "join", "leave", "confirmReady", "makeMove"}) =>
          IF pc'[p] = "done"
            THEN ~Stale(StoredOf(redisValue'), now)
            ELSE ~Stale(st'[p], now)]_vars

\* C33: when the record a call goes on to write has another side to move
\* than the record it read (the opponent has moved, or the game was reset)
\* and a player is seated for the new side to move, that player's turn
\* state in the new record is either pending_confirmation with deadline
\* now + CONFIRMATION_TIMEOUT_MS, or absent (the next call that touches the
\* record then starts the clock, see C31); it is never a status or a
\* deadline from an earlier turn.
C33_FullWindow ==
  [][\A p \in Procs :
       (Reads(p) /\ pc'[p] = "modified") =>
         LET c == getTurnFromFen(st'[p].game.fen) IN
         (getTurnFromFen(Stored.game.fen) # c /\ st'[p].current[c] # Nil) =>
            st'[p].turns[c] \in {Nil, Pending(now)}]_vars

\* C34: once updateCache has stored the record of a mutation of this process
\* with version v, the cache holds a record of version >= v from then on (a
\* cache read returns the cache); no hydration that completes afterwards
\* puts an older record in its place.
C34_CacheFresh ==
  applied >= 0 => (isHydrated /\ CacheValue.version >= applied)

\* C35: in the stored record, a color with players in its queue has a
\* player in its seat.
C35_SeatOccupied ==
  \A c \in Colors : Len(Stored.queues[c]) > 0 => Stored.current[c] # Nil

\* the seated player leaves while two others wait: the record the call is
\* about to store has the first of them in the seat and the second waiting
C35_Witness ==
  \E c \in Colors :
    /\ pc["p1"] = "checked" /\ op["p1"].kind = "leave"
    /\ Stored.current[c] # Nil /\ Stored.current[c].id = op["p1"].player
    /\ Len(Stored.queues[c]) = 2
    /\ st["p1"].current[c] = Stored.queues[c][1]
    /\ st["p1"].queues[c] = <<Stored.queues[c][2]>>

IsConfirmed(ts) == ts # Nil /\ ts.status = "confirmed"
IsPending(ts) == ts # Nil /\ ts.status = "pending_confirmation"

\* C36: compare the record a call read with the record it goes on to write,
\* seat by seat. (a) A turn state that is new, or that belongs to a new
\* holder of the seat, is pending_confirmation, unless the call is the
\* holder's confirmReady. (b) A seat is confirmed in the new record and was
\* not (or was held by somebody else) only when the call is a confirmReady
\* of its holder and its color is to move. (c) A seat that was confirmed is
\* not pending_confirmation for the same player in the new record, unless
\* that player had run out of time and was evicted in this call. (d) An
\* accepted move is made by the holder of a confirmed seat.
C36_TurnStateMachine ==
  [][\A p \in Procs :
       (Reads(p) /\ pc'[p] # "done") =>
         LET old == Stored
             new == st'[p]
             own(c) == /\ op'[p].kind = "confirmReady"
                       /\ new.current[c] # Nil /\ op'[p].player = new.current[c].id
                       /\ getTurnFromFen(old.game.fen) = c
         IN /\ \A c \in Colors :
                 /\ (/\ new.turns[c] # Nil
                      /\ (old.turns[c] = Nil \/ old.current[c] # new.current[c])
                      /\ ~own(c)) => IsPending(new.turns[c])
                 /\ (/\ IsConfirmed(new.turns[c])
                      /\ (~IsConfirmed(old.turns[c]) \/ old.current[c] # new.current[c]))
                       => own(c)
                 /\ (/\ IsConfirmed(old.turns[c]) /\ IsPending(new.turns[c])
                      /\ old.current[c] = new.current[c]) => Expiring(old, now)
            /\ op'[p].kind = "makeMove" =>
                 LET c == getTurnFromFen(old.game.fen) IN
                 /\ IsConfirmed(old.turns[c])
                 /\ old.current[c] # Nil /\ old.current[c].id = op'[p].player]_vars

\* both colors have gone through the cycle: the second move of the game
\* has been accepted
C36_Witness ==
  /\ pc["p1"] = "done" /\ op["p1"].kind = "makeMove" /\ ret["p1"].success
  /\ Stored.game.fen.ply = 2
  /\ Stored.game.lastMove = op["p1"].mv

\* what the caller of the facade gets back from the last call: a boolean
\* from joinQueue and kickPlayerByName, {success, error} from confirmReady
\* and makeMove, the record from a read, nothing from the others
SameResult(o, r, f, out) ==
  CASE o.kind = "join" -> mem.ret.success = r.success
    [] o.kind \in {"confirmReady", "makeMove"} ->
         /\ mem.ret.success = r.success
         /\ r.success \/ mem.ret.error = r.error
    [] o.kind = "kickPlayerByName" -> mem.found = f
    [] o.kind = "getState" -> mem.out = out
    [] OTHER -> TRUE

\* C37: after the same calls at the same clock readings, one at a time, the
\* in-memory store holds the record the Redis store holds (version
\* included), and the last call has returned the same result from both.
C37_StoreEquivalence ==
  track = "equiv" =>
    /\ mem.state = Stored
    /\ SameResult(op["p1"], ret["p1"], found["p1"], st["p1"])

\* C38: once the channel of an observer has ended by client abort, by
\* cancel or by the 55-second timeout, the observer is not in the registry
\* of SSE clients, and from then on nothing is enqueued on its channel.
C38_RegistryCleanup ==
  [][\A o \in Observers :
       stream'[o].how # "none" =>
         /\ o \notin sseClients'
         /\ stream[o].how # "none" => channel'[o] = channel[o]]_vars

\* C39: from a failed hydration read until a mutation of this process
\* succeeds or a hydration is forced, the cache is hydrated and holds the
\* default record with version 0, and no cache read issues a store read; a
\* getState whose store read throws returns the default record.
C39_HydrationFailure ==
  [][/\ hydFailed' => (isHydrated' /\ cachedState' = createDefaultState)
     /\ (hydFailed /\ hydFailed') => hydrateReads' = hydrateReads
     /\ \A p \in Procs :
          (pc[p] = "idle" /\ op'[p] = ReadFailOp) =>
            (st'[p] = createDefaultState /\ ret'[p].success)]_vars
====
